---- MODULE Spec2Model ----
(***************************************************************************)
(* Salyte Beacon backend: the authentication routes (routes/auth.js), the  *)
(* authentication middleware (middleware/auth.js) and the User model       *)
(* (models/user.js), as state machines.                                    *)
(*                                                                         *)
(* Each middleware or route handler is one action per stretch of code      *)
(* between two awaits on the database or on bcrypt; requests in flight     *)
(* interleave at those points.  Database operations succeed unless the     *)
(* schema or the unique index rejects the document: an unreachable         *)
(* database is not part of the model.                                      *)
(***************************************************************************)
EXTENDS Integers, Sequences, FiniteSets, Bags, TLC

VARIABLES
    \* userRateLimit (middleware/auth.js)
    rlMax,          \* maxRequests of the limiter instance
    rlWindow,       \* windowMinutes of the limiter instance
    rlNow,          \* Date.now(), ms
    requestCounts,  \* the closure's Map: key -> {count, resetTime} or NoEntry
    rlRes,          \* the last response / next() of the limiter
    rlAdmits,       \* history: key -> time -> number of requests passed to next()
    \* authorize (middleware/auth.js)
    azRoles,        \* the roles the middleware was built with
    azReq,          \* req.user of the request
    azRes,          \* what the middleware did with it
    \* checkApiQuota (middleware/auth.js), updateApiUsage (models/user.js)
    qDoc,           \* the user document (subscription type, apiUsage, activity)
    qToday,         \* the calendar day of new Date(), as a day number
    qRes,           \* what checkApiQuota did with the last request
    qCount,         \* requests made so far
    \* routes/auth.js, the auth middleware, the users collection
    now,            \* Date.now(), ms
    users,          \* the users collection: _id -> document
    nextId,         \* the next _id a new document gets
    limiter,        \* express-rate-limit's store of each route: [hits, resetTime]
    reqs,           \* the requests in flight: a bag of [pc, body, ...]
    last,           \* the last response sent
    \* the global error handler (server.js)
    ehError,        \* the error passed to the handler
    ehRes,          \* the responses the handler sent for it
    \* POST /api/chat (routes/chat.js)
    chatPending,    \* the messages whose generateAIResponse is awaited
    chatRes,        \* the last response sent
    \* the process and its signal handlers (server.js, config/db.js)
    sdServer,       \* the HTTP server: "listening", "closing" or "closed"
    sdConns,        \* the connections the HTTP server holds open
    sdDb,           \* mongoose: "connecting", "connected", "closing" or "closed"
    sdSignals,      \* the signals delivered so far, in order
    sdCloseCb,      \* the callback given to server.close has run
    sdExit,         \* the argument of process.exit, or NoExit
    \* the photos of the report form (frontend/report.js)
    uploadedPhotos, \* the list uploadedPhotos: photos [name, size]
    phReaders,      \* the files whose FileReader has not completed: a bag
    phDraft,        \* uploadedPhotos of the draft in localStorage
    phEvents,       \* user events so far
    \* offline reports (frontend/report.js)
    isOnline,       \* the page's isOnline
    offlineReports, \* localStorage salyte_offline_reports: report ids, in order
    syncs,          \* the running syncOfflineReports: a bag of [snapshot, results]
    serverReports,  \* the reports whose POST the server has answered ok
    savedOffline,   \* history: the reports submitOffline has stored
    reportCount,    \* reports submitted so far
    netEvents,      \* online and offline events so far
    \* concurrent logins (routes/auth.js)
    wrongChecks     \* history: wrong passwords compared since the last successful
                    \* login, counted by the specification of concurrent logins

rlVars == <<rlMax, rlWindow, rlNow, requestCounts, rlRes, rlAdmits>>
azVars == <<azRoles, azReq, azRes>>
qVars == <<qDoc, qToday, qRes, qCount>>
authVars == <<now, users, nextId, limiter, reqs, last>>
ehVars == <<ehError, ehRes>>
\* the components that stand apart from the middleware and the auth routes
chatVars == <<chatPending, chatRes>>
sdVars == <<sdServer, sdConns, sdDb, sdSignals, sdCloseCb, sdExit>>
phVars == <<uploadedPhotos, phReaders, phDraft, phEvents>>
offVars ==
    <<isOnline, offlineReports, syncs, serverReports, savedOffline, reportCount, netEvents>>
histVars == <<wrongChecks>>
miscVars == <<ehVars, chatVars, sdVars, phVars, offVars, histVars>>
vars == <<rlVars, azVars, qVars, authVars, miscVars>>

NULL == "null"

RECURSIVE SumOver(_, _)
SumOver(f, S) ==
    IF S = {} THEN 0
    ELSE LET x == CHOOSE y \in S : TRUE IN f[x] + SumOver(f, S \ {x})

(***************************************************************************)
(* userRateLimit(maxRequests, windowMinutes)                               *)
(***************************************************************************)
MaxRlTicks == 4                 \* the clock advances this many times
RlTickMs == 60 * 1000           \* by one minute each time
MaxRlParam == 2                 \* maxRequests and windowMinutes range over 1..MaxRlParam

RlKeys == {"user1", "10.0.0.1"}     \* req.user.userId, or req.ip for anonymous requests
RlTimes == {i * RlTickMs : i \in 0..MaxRlTicks}
NoEntry == [count |-> -1, resetTime |-> -1]
NoHeaders == {}                 \* a response on which the middleware set no header

WindowMs(windowMinutes) == windowMinutes * 60 * 1000

CeilDiv(a, b) == (a + b - 1) \div b

\* "Clean old entries": every entry whose resetTime has passed is deleted.
CleanOldEntries(counts, t) ==
    [k \in DOMAIN counts |->
        IF counts[k] # NoEntry /\ counts[k].resetTime < t THEN NoEntry ELSE counts[k]]

\* The middleware returned by userRateLimit, for one request of key userId at
\* time t: the Map afterwards, the status sent (0: none), whether next() was
\* called, and the headers set on the response.
userRateLimit(maxRequests, windowMinutes, counts, userId, t) ==
    LET cleaned == CleanOldEntries(counts, t)
        fresh == cleaned[userId] = NoEntry \/ cleaned[userId].resetTime < t
        userRequests == IF fresh
                        THEN [count |-> 0, resetTime |-> t + WindowMs(windowMinutes)]
                        ELSE cleaned[userId]
    IN  IF userRequests.count >= maxRequests
        THEN [counts |-> [cleaned EXCEPT ![userId] = userRequests],
              status |-> 429,
              next |-> FALSE,
              headers |-> NoHeaders]
        ELSE LET counted == [userRequests EXCEPT !.count = @ + 1]
             IN [counts |-> [cleaned EXCEPT ![userId] = counted],
                 status |-> 0,
                 next |-> TRUE,
                 headers |-> {[name |-> "X-RateLimit-Limit", value |-> maxRequests],
                              [name |-> "X-RateLimit-Remaining",
                               value |-> maxRequests - counted.count],
                              [name |-> "X-RateLimit-Reset",
                               value |-> CeilDiv(counted.resetTime, 1000)]}]

RlInit ==
    /\ rlMax \in 1..MaxRlParam
    /\ rlWindow \in 1..MaxRlParam
    /\ rlNow = 0
    /\ requestCounts = [k \in RlKeys |-> NoEntry]
    /\ rlRes = [key |-> NULL, status |-> 0, next |-> FALSE, headers |-> NoHeaders]
    /\ rlAdmits = [k \in RlKeys |-> [t \in RlTimes |-> 0]]

RlRequest(k) ==
    LET out == userRateLimit(rlMax, rlWindow, requestCounts, k, rlNow)
    IN  /\ requestCounts' = out.counts
        /\ rlRes' = [key |-> k, status |-> out.status, next |-> out.next,
                     headers |-> out.headers]
        /\ rlAdmits' = IF out.next
                       THEN [rlAdmits EXCEPT ![k][rlNow] = @ + 1]
                       ELSE rlAdmits
        /\ UNCHANGED <<rlMax, rlWindow, rlNow>>

RlTick ==
    /\ rlNow + RlTickMs \in RlTimes
    /\ rlNow' = rlNow + RlTickMs
    /\ UNCHANGED <<rlMax, rlWindow, requestCounts, rlRes, rlAdmits>>

\* Requests of key k passed to next() in the interval (t - window, t].
RlAdmittedIn(k, t) ==
    SumOver(rlAdmits[k], {s \in RlTimes : t - WindowMs(rlWindow) < s /\ s <= t})

\* C3: in every time interval of length windowMinutes at most maxRequests
\* requests of one key are passed on to next().
C3_SlidingWindowLimit ==
    \A k \in RlKeys, t \in RlTimes : RlAdmittedIn(k, t) <= rlMax

RateLimitHeaders == {"X-RateLimit-Limit", "X-RateLimit-Remaining", "X-RateLimit-Reset"}

\* C4: every response to a request that passed through userRateLimit, admitted
\* or rejected with 429, carries the three X-RateLimit headers.
C4_HeadersOnEveryResponse ==
    rlRes.key # NULL => {h.name : h \in rlRes.headers} = RateLimitHeaders

(***************************************************************************)
(* authorize(...roles)                                                     *)
(***************************************************************************)
Roles == {"individual", "organization", "researcher", "government", "ngo", "admin"}
NoUser == [role |-> NULL]               \* req.user is null or undefined
AzUsers == {NoUser} \cup [role : Roles \cup {"undefined"}]

\* The mutant: the role comparison is dropped, any authenticated user passes.
authorizeAnyRole(roles, user) ==
    IF user = NoUser
    THEN [status |-> 401, next |-> FALSE]
    ELSE [status |-> 0, next |-> TRUE]

authorize(roles, user) ==
    IF user = NoUser
    THEN [status |-> 401, next |-> FALSE]
    ELSE IF user.role \notin roles
         THEN [status |-> 403, next |-> FALSE]
         ELSE [status |-> 0, next |-> TRUE]

AzInit ==
    /\ azRoles = {}
    /\ azReq = NoUser
    /\ azRes = [ran |-> FALSE, status |-> 0, next |-> FALSE]

AzRequest ==
    \E roles \in SUBSET Roles, user \in AzUsers :
        LET out == authorize(roles, user)
        IN  /\ azRoles' = roles
            /\ azReq' = user
            /\ azRes' = [ran |-> TRUE, status |-> out.status, next |-> out.next]

\* C9: authorize responds 401 when req.user is absent, 403 when req.user.role is
\* not one of the listed roles, calls next() exactly when the role is listed,
\* and never both responds and calls next().
C9_Authorize ==
    azRes.ran =>
        /\ (azReq = NoUser => azRes.status = 401)
        /\ (azReq # NoUser /\ azReq.role \notin azRoles => azRes.status = 403)
        /\ (azRes.next <=> azReq # NoUser /\ azReq.role \in azRoles)
        /\ ~(azRes.next /\ azRes.status # 0)
        /\ (azRes.next \/ azRes.status # 0)

\* C9 witness: all three outcomes are covered; this one is the 403 of an
\* authenticated user whose role is not listed, next to listed roles.
C9_Witness ==
    /\ azRes.ran /\ azReq # NoUser /\ azRoles # {} /\ azReq.role \notin azRoles
    /\ azRes.status = 403

(***************************************************************************)
(* checkApiQuota and User.updateApiUsage                                   *)
(***************************************************************************)
MaxQuotaRequests == 4           \* requests per run
MaxQuotaDays == 2               \* the calendar day changes this many times
MaxQuotaMonths == 1             \* the calendar month changes this many times

Infinity == -1                  \* stands for JavaScript's Infinity
SubscriptionTypes == {"free", "basic", "premium", "enterprise"}

quotaLimits ==
    [free       |-> [daily |-> 100, monthly |-> 1000],
     basic      |-> [daily |-> 500, monthly |-> 10000],
     premium    |-> [daily |-> 2000, monthly |-> 50000],
     enterprise |-> [daily |-> Infinity, monthly |-> Infinity]]

\* x > limit, where nothing is greater than Infinity
GreaterThan(x, limit) == limit # Infinity /\ x > limit

NoDate == -1                    \* apiUsage.lastRequestDate is not set
NoDoc == [present |-> FALSE]    \* req.userDoc is null: no authenticated user

\* A document as the schema's defaults leave it: no request counted yet.
FreshDoc(type) ==
    [present |-> TRUE, type |-> type, dailyRequests |-> 0, monthlyRequests |-> 0,
     lastRequestDate |-> NoDate, quotaExceeded |-> FALSE, lastActive |-> NoDate]

\* The mutant: the quota is exceeded as soon as a limit is reached.
updateApiUsageAtLimit(doc, today) ==
    LET isNewDay == doc.lastRequestDate = NoDate \/ doc.lastRequestDate # today
        daily == IF isNewDay THEN 1 ELSE doc.dailyRequests + 1
        monthly == doc.monthlyRequests + 1
        userQuota == quotaLimits[doc.type]
    IN  [doc EXCEPT !.dailyRequests = daily,
                    !.monthlyRequests = monthly,
                    !.lastRequestDate = today,
                    !.lastActive = today,
                    !.quotaExceeded = \/ GreaterThan(daily + 1, userQuota.daily)
                                      \/ GreaterThan(monthly + 1, userQuota.monthly)]

\* userSchema.methods.updateApiUsage: the document as saved.
updateApiUsage(doc, today) ==
    LET isNewDay == doc.lastRequestDate = NoDate \/ doc.lastRequestDate # today
        daily == IF isNewDay THEN 1 ELSE doc.dailyRequests + 1
        monthly == doc.monthlyRequests + 1
        userQuota == quotaLimits[doc.type]
    IN  [doc EXCEPT !.dailyRequests = daily,
                    !.monthlyRequests = monthly,
                    !.lastRequestDate = today,
                    !.lastActive = today,
                    !.quotaExceeded = \/ GreaterThan(daily, userQuota.daily)
                                      \/ GreaterThan(monthly, userQuota.monthly)]

\* checkApiQuota for a request whose req.userDoc is doc (NoDoc: anonymous).
checkApiQuota(doc, today) ==
    IF ~doc.present
    THEN [doc |-> doc, status |-> 0, next |-> TRUE]
    ELSE LET saved == updateApiUsage(doc, today)
         IN  IF saved.quotaExceeded
             THEN [doc |-> saved, status |-> 429, next |-> FALSE]
             ELSE [doc |-> saved, status |-> 0, next |-> TRUE]

\* Usage counters a document can have reached at the start of a run: none, or
\* one request short of the daily limit, of both limits, or of the monthly limit.
\* (An enterprise user has no limit; premium's numbers are used.)
QuotaStartDocs(type) ==
    LET lim == IF type = "enterprise" THEN quotaLimits["premium"] ELSE quotaLimits[type]
    IN  {FreshDoc(type)} \cup
        {[FreshDoc(type) EXCEPT !.dailyRequests = c[1], !.monthlyRequests = c[2],
                                !.lastRequestDate = 0, !.lastActive = 0] :
            c \in {<<lim.daily - 1, lim.daily - 1>>,
                   <<lim.daily - 1, lim.monthly - 1>>,
                   <<1, lim.monthly - 1>>}}

QInit ==
    /\ qDoc \in UNION {QuotaStartDocs(type) : type \in SubscriptionTypes}
    /\ qToday = 0
    /\ qRes = [ran |-> FALSE, anonymous |-> FALSE, before |-> NoDoc, today |-> 0,
               status |-> 0, next |-> FALSE]
    /\ qCount = 0

\* A request reaches checkApiQuota, with or without an authenticated user.
QRequest(anonymous) ==
    LET doc == IF anonymous THEN NoDoc ELSE qDoc
        out == checkApiQuota(doc, qToday)
    IN  /\ qCount < MaxQuotaRequests
        /\ qCount' = qCount + 1
        /\ qDoc' = IF anonymous THEN qDoc ELSE out.doc
        /\ qRes' = [ran |-> TRUE, anonymous |-> anonymous, before |-> doc,
                    today |-> qToday, status |-> out.status, next |-> out.next]
        /\ UNCHANGED qToday

QNextDay ==
    /\ qToday < MaxQuotaDays
    /\ qToday' = qToday + 1
    /\ UNCHANGED <<qDoc, qRes, qCount>>

\* The calendar of new Date(): day numbers, in months of 31 days.
DaysPerMonth == 31
MonthOf(day) == day \div DaysPerMonth

\* The first day of the next month begins.
QNextMonth ==
    /\ MonthOf(qToday) < MaxQuotaMonths
    /\ qToday' = (MonthOf(qToday) + 1) * DaysPerMonth
    /\ UNCHANGED <<qDoc, qRes, qCount>>

\* The limits as the claim gives them (0: unlimited).
C10_DailyLimit(type) ==
    CASE type = "free" -> 100 [] type = "basic" -> 500 [] type = "premium" -> 2000
      [] type = "enterprise" -> 0
C10_MonthlyLimit(type) ==
    CASE type = "free" -> 1000 [] type = "basic" -> 10000 [] type = "premium" -> 50000
      [] type = "enterprise" -> 0

\* C10: for an authenticated user checkApiQuota counts the request (daily
\* counter restarted at 1 on a new day, monthly counter raised by 1) and answers
\* 429 exactly when, after counting, dailyRequests exceeds the daily limit or
\* monthlyRequests exceeds the monthly limit of the subscription (enterprise:
\* never), and otherwise calls next(); an anonymous request is passed on.
C10_ApiQuota ==
    qRes.ran =>
        IF qRes.anonymous
        THEN qRes.next /\ qRes.status = 0
        ELSE LET b == qRes.before
                 type == b.type
                 counted == /\ qDoc.dailyRequests =
                                IF b.lastRequestDate = qRes.today
                                THEN b.dailyRequests + 1 ELSE 1
                            /\ qDoc.monthlyRequests = b.monthlyRequests + 1
                 over == /\ type # "enterprise"
                         /\ \/ qDoc.dailyRequests > C10_DailyLimit(type)
                            \/ qDoc.monthlyRequests > C10_MonthlyLimit(type)
             IN  /\ counted
                 /\ (qRes.status = 429 <=> over)
                 /\ (qRes.next <=> ~over)
                 /\ (qRes.next <=> qRes.status = 0)

\* C10 witness: a free user's 101st request of the day is answered 429.
C10_Witness ==
    /\ qRes.ran /\ ~qRes.anonymous /\ qDoc.type = "free"
    /\ qDoc.dailyRequests = 101 /\ qRes.status = 429 /\ ~qRes.next

\* C11: a user whose last request was answered 429 'Quota exceeded' and who
\* sends the next one after the day and the month have both changed is
\* admitted: next() is called for that request.
C11_RecoveryByWaiting ==
    [][/\ QRequest(FALSE)
       /\ qRes.ran /\ ~qRes.anonymous /\ qRes.status = 429
       /\ qToday # qRes.today /\ MonthOf(qToday) # MonthOf(qRes.today)
       => qRes'.next]_vars

(***************************************************************************)
(* The global error handler (server.js)                                    *)
(***************************************************************************)
\* The errors passed to the handler: name, code, and status when set.
ErrorNames ==
    {"MongoNetworkError", "MongoTimeoutError", "ValidationError",
     "JsonWebTokenError", "TokenExpiredError", "Error", NULL}
ErrorCodes == {"LIMIT_FILE_SIZE", "E11000", NULL}
ErrorStatuses == {400, 403, 404, 413, 503}
Errors ==
    [name : ErrorNames, code : ErrorCodes, hasStatus : {FALSE}, status : {500}]
    \cup [name : ErrorNames, code : ErrorCodes, hasStatus : {TRUE},
          status : ErrorStatuses]
NoError == [name |-> NULL, code |-> NULL, hasStatus |-> FALSE, status |-> 0]

\* A mutant: the file-size rule is tried first.
errorHandlerFileSizeFirst(error) ==
    IF error.code = "LIMIT_FILE_SIZE"
    THEN <<[status |-> 413, error |-> "File too large"]>>
    ELSE IF error.name = "MongoNetworkError" \/ error.name = "MongoTimeoutError"
    THEN <<[status |-> 503, error |-> "Database connection error"]>>
    ELSE IF error.name = "ValidationError"
    THEN <<[status |-> 400, error |-> "Validation error"]>>
    ELSE IF error.name = "JsonWebTokenError"
    THEN <<[status |-> 401, error |-> "Authentication error"]>>
    ELSE <<[status |-> IF error.hasStatus THEN error.status ELSE 500,
            error |-> "Internal server error"]>>

\* app.use((error, req, res, next) => ...): the responses it sends, in order.
\* Each rule returns after res.status(...).json(...).
errorHandler(error) ==
    IF error.name = "MongoNetworkError" \/ error.name = "MongoTimeoutError"
    THEN <<[status |-> 503, error |-> "Database connection error"]>>
    ELSE IF error.name = "ValidationError"
    THEN <<[status |-> 400, error |-> "Validation error"]>>
    ELSE IF error.name = "JsonWebTokenError"
    THEN <<[status |-> 401, error |-> "Authentication error"]>>
    ELSE IF error.code = "LIMIT_FILE_SIZE"
    THEN <<[status |-> 413, error |-> "File too large"]>>
    ELSE <<[status |-> IF error.hasStatus THEN error.status ELSE 500,
            error |-> "Internal server error"]>>

EhInit == ehError = NoError /\ ehRes = <<>>

\* next(error) reaches the handler.
EhHandle(error) ==
    /\ ehError' = error
    /\ ehRes' = errorHandler(error)

\* The status the claim's rules give, first match first.
C14_Status(error) ==
    CASE error.name \in {"MongoNetworkError", "MongoTimeoutError"} -> 503
      [] error.name = "ValidationError" -> 400
      [] error.name = "JsonWebTokenError" -> 401
      [] /\ error.name \notin {"MongoNetworkError", "MongoTimeoutError",
                               "ValidationError", "JsonWebTokenError"}
         /\ error.code = "LIMIT_FILE_SIZE" -> 413
      [] OTHER -> IF error.hasStatus THEN error.status ELSE 500

\* C14: the global error handler answers every error passed to it with exactly
\* one response, whose status is fixed by the first matching rule: name
\* MongoNetworkError or MongoTimeoutError 503, name ValidationError 400, name
\* JsonWebTokenError 401, code LIMIT_FILE_SIZE 413, otherwise error.status when
\* set and 500 when not.
C14_ErrorStatus ==
    ehError # NoError =>
        Len(ehRes) = 1 /\ ehRes[1].status = C14_Status(ehError)

\* C14 witness: an error that matches two rules (name ValidationError and code
\* LIMIT_FILE_SIZE, with a status of its own) was answered by the first, 400.
C14_Witness ==
    /\ ehError.name = "ValidationError" /\ ehError.code = "LIMIT_FILE_SIZE"
    /\ ehError.hasStatus /\ ehRes = <<[status |-> 400, error |-> "Validation error"]>>

(***************************************************************************)
(* Strings.  A string the code inspects character by character is a        *)
(* sequence of one-character strings.                                      *)
(***************************************************************************)
UpperCase == {"A", "B"}
Letters == {"a", "b", "c", "d", "n", "x"} \cup UpperCase
Digits == {"0", "1", "2", "3", "4", "5", "6", "7", "8", "9"}
WordChars == Letters \cup Digits \cup {"_"}          \* \w
WhiteSpace == {" "}                                  \* \s

LowerChar(c) == CASE c = "A" -> "a" [] c = "B" -> "b" [] OTHER -> c
toLowerCase(s) == [i \in 1..Len(s) |-> LowerChar(s[i])]

RECURSIVE TrimLeft(_)
TrimLeft(s) == IF s # <<>> /\ Head(s) \in WhiteSpace THEN TrimLeft(Tail(s)) ELSE s
RECURSIVE TrimRight(_)
TrimRight(s) ==
    IF s # <<>> /\ s[Len(s)] \in WhiteSpace THEN TrimRight(SubSeq(s, 1, Len(s) - 1)) ELSE s
trim(s) == TrimRight(TrimLeft(s))

\* routes/auth.js: /^[^\s@]+@[^\s@]+\.[^\s@]+$/
emailRegex(s) ==
    \E i, j \in 1..Len(s) :
        /\ s[i] = "@" /\ s[j] = "."
        /\ i > 1 /\ j > i + 1 /\ j < Len(s)
        /\ \A k \in (1..Len(s)) \ {i} : s[k] \notin WhiteSpace \cup {"@"}

\* \w+([.-]?\w+)* : words joined by single "." or "-"
WordSeq(s) ==
    /\ s # <<>>
    /\ s[1] \in WordChars /\ s[Len(s)] \in WordChars
    /\ \A k \in 1..Len(s) : s[k] \in WordChars \cup {".", "-"}
    /\ \A k \in 1..(Len(s) - 1) : s[k] \in WordChars \/ s[k + 1] \in WordChars

\* (\.\w{2,3})+
RECURSIVE TldGroups(_)
TldGroups(s) ==
    /\ s # <<>> /\ s[1] = "."
    /\ \E n \in {2, 3} :
        /\ Len(s) >= 1 + n
        /\ \A k \in 2..(1 + n) : s[k] \in WordChars
        /\ (Len(s) = 1 + n \/ TldGroups(SubSeq(s, 2 + n, Len(s))))

\* models/user.js: /^\w+([.-]?\w+)*@\w+([.-]?\w+)*(\.\w{2,3})+$/
emailMatch(s) ==
    \E i \in 1..Len(s) :
        /\ s[i] = "@"
        /\ WordSeq(SubSeq(s, 1, i - 1))
        /\ \E k \in (i + 1)..(Len(s) - 1) :
            /\ WordSeq(SubSeq(s, i + 1, k))
            /\ TldGroups(SubSeq(s, k + 1, Len(s)))

\* models/user.js: /^[\+]?[1-9][\d]{0,15}$/
phoneMatch(s) ==
    LET d == IF s # <<>> /\ s[1] = "+" THEN Tail(s) ELSE s
    IN  /\ d # <<>> /\ Len(d) <= 16
        /\ d[1] \in Digits \ {"0"}
        /\ \A k \in 2..Len(d) : d[k] \in Digits

(***************************************************************************)
(* Request data                                                            *)
(***************************************************************************)
MaxSlots == 2                   \* requests in flight at once
MaxSignupTicks == 1             \* the clock advances this many times (signup)
MaxLoginTicks == 2              \* the clock advances this many times (login)
MaxIds == 2                     \* documents ever inserted
MaxAccountWeeks == 1             \* the clock advances this many weeks (account)
MaxResetHours == 1          \* the clock advances this many hours (reset)
MaxChats == 2               \* chat messages awaiting their answer at once
MaxConns == 2               \* connections the HTTP server holds open at once
MaxSignals == 2             \* signals delivered to the process
MaxPhotoEvents == 3         \* selections, drops, removals and reloads of the form
MaxReports == 3             \* reports submitted through the form
MaxNetEvents == 3           \* online and offline events
MaxLogins == 1                  \* successful logins counted per account

TickMs == 15 * 60 * 1000        \* the clock advances by 15 minutes

Absent == <<>>                  \* a field that is undefined or ''
Ann == <<"A", "n", "n">>
Lee == <<"L", "e", "e">>
Blank == <<" ">>
LongName == [i \in 1..51 |-> "x"]
EmailA == <<"a", "@", "b", ".", "c", "d">>
EmailAUpper == <<"A", "@", "b", ".", "c", "d">>
EmailB == <<"b", "@", "b", ".", "c", "d">>
EmailShortTld == <<"a", "@", "b", ".", "c">>
EmailNoAt == <<"a", "b", ".", "c", "d">>
EmailSpace == <<"a", " ", "@", "b", ".", "c", "d">>
EmailNoDot == <<"a", "@", "b", "c", "d">>
PhoneBad == <<"0", "7", "1", "2">>
Password1 == "password1"
Password2 == "hunter2hunter2"
ShortPassword == "passwd7"
NoPassword == ""

\* POST /signup bodies: a valid one, and the valid one with one field changed.
BaseSignup ==
    [firstName |-> Ann, lastName |-> Lee, email |-> EmailA, phone |-> Absent,
     password |-> Password1, role |-> NULL]
SignupBodies ==
    {BaseSignup}
    \cup {[BaseSignup EXCEPT !.firstName = v] : v \in {Absent, Blank, LongName}}
    \cup {[BaseSignup EXCEPT !.lastName = v] : v \in {Absent}}
    \cup {[BaseSignup EXCEPT !.email = v] :
            v \in {Absent, EmailAUpper, EmailB, EmailShortTld, EmailNoAt,
                   EmailSpace, EmailNoDot}}
    \cup {[BaseSignup EXCEPT !.phone = v] : v \in {PhoneBad}}
    \cup {[BaseSignup EXCEPT !.password = v] : v \in {NoPassword, ShortPassword}}
    \cup {[BaseSignup EXCEPT !.role = v] : v \in {"superuser"}}

\* POST /login bodies
LoginBodies ==
    [email : {EmailA, EmailAUpper, EmailB}, password : {Password1, Password2},
     rememberMe : {FALSE}]
    \cup {[email |-> Absent, password |-> Password1, rememberMe |-> FALSE],
          [email |-> EmailA, password |-> NoPassword, rememberMe |-> FALSE],
          [email |-> EmailA, password |-> Password1, rememberMe |-> TRUE]}

\* The bodies of the client that signs up once and then logs in
RoundTripSignups ==
    {BaseSignup, [BaseSignup EXCEPT !.email = EmailAUpper, !.firstName = Lee]}
RoundTripLogins ==
    {[email |-> EmailA, password |-> Password1, rememberMe |-> FALSE],
     [email |-> EmailAUpper, password |-> Password1, rememberMe |-> TRUE],
     [email |-> EmailA, password |-> Password2, rememberMe |-> FALSE],
     [email |-> EmailB, password |-> Password1, rememberMe |-> FALSE]}

(***************************************************************************)
(* bcrypt, jsonwebtoken, express-rate-limit                                *)
(***************************************************************************)
\* bcrypt.hash(password, 12) and bcrypt.compare(password, hash)
bcryptHash(password) == <<"$2a$12$", password>>
bcryptCompare(password, hash) == hash = bcryptHash(password)

BcryptHashLength == 7 + 22 + 31      \* "$2a$12$", salt, digest

JwtSecret == "salyte-beacon-secret-key"
NoToken == [kind |-> "none", userId |-> 0, purpose |-> NULL, exp |-> 0, key |-> NULL]
SevenDays == 7 * 24 * 60 * 60       \* expiresIn: '7d', in seconds
ThirtyDays == 30 * 24 * 60 * 60     \* expiresIn: '30d'
OneHour == 60 * 60                  \* expiresIn: '1h'

\* jwt.sign(payload, secret, {expiresIn}) at time t (ms)
jwtSign(userId, purpose, expiresIn, t) ==
    [kind |-> "jwt", userId |-> userId, purpose |-> purpose,
     exp |-> (t \div 1000) + expiresIn, key |-> JwtSecret]

\* jwt.verify(token, secret) at time t: "ok" or the name of the error thrown
jwtVerify(token, t) ==
    IF token.kind # "jwt" \/ token.key # JwtSecret THEN "JsonWebTokenError"
    ELSE IF (t \div 1000) >= token.exp THEN "TokenExpiredError"
    ELSE "ok"

\* ratelimiter(maxRequests, windowMinutes): one request of the client at time t.
\* The store keeps the hits of the current window; past max + 1 they are not
\* told apart.
NoHits == [hits |-> 0, resetTime |-> 0]
LimitedRoutes == {"signup", "login", "forgot-password"}
rateLimiter(maxRequests, windowMinutes, entry, t) ==
    LET cur == IF entry.resetTime <= t
               THEN [hits |-> 0, resetTime |-> t + windowMinutes * 60 * 1000]
               ELSE entry
        hits == IF cur.hits > maxRequests THEN cur.hits ELSE cur.hits + 1
    IN  [entry |-> [cur EXCEPT !.hits = hits], blocked |-> hits > maxRequests]

(***************************************************************************)
(* The User model                                                          *)
(***************************************************************************)
NoTime == -1                    \* a Date field that is not set
NoDocument == [id |-> 0]        \* findOne / findById found nothing

IsComplete(doc) ==
    /\ doc.firstName # Absent /\ doc.lastName # Absent /\ doc.email # Absent
    /\ doc.phone # Absent /\ doc.location # Absent

\* new User({...}) as POST /signup builds it, with the schema's defaults
NewUser(body, id, t) ==
    [id |-> id,
     firstName |-> trim(body.firstName),
     lastName |-> trim(body.lastName),
     email |-> trim(toLowerCase(body.email)),
     phone |-> trim(body.phone),
     password |-> bcryptHash(body.password),
     role |-> IF body.role = NULL THEN "individual" ELSE body.role,
     location |-> Absent,
     isComplete |-> FALSE,
     lastUpdated |-> t,
     loginAttempts |-> 0,
     lastLoginAttempt |-> NoTime,
     lastLogin |-> NoTime,
     totalLogins |-> 0,
     lastActive |-> t,
     passwordResetToken |-> NoToken,
     passwordResetExpires |-> NoTime,
     preferences |-> [newsletter |-> FALSE, theme |-> "light"],
     isVerified |-> FALSE,
     subscription |-> "free",
     permissions |-> <<>>,
     apiUsage |-> [dailyRequests |-> 0, monthlyRequests |-> 0]]

\* The schema's validators, run by save(): TRUE when the document passes.
Validate(doc) ==
    /\ doc.firstName # Absent /\ Len(doc.firstName) <= 50
    /\ doc.lastName # Absent /\ Len(doc.lastName) <= 50
    /\ doc.email # Absent /\ emailMatch(doc.email)
    /\ (doc.phone = Absent \/ phoneMatch(doc.phone))
    /\ BcryptHashLength >= 8                \* minLength, of the stored hash
    /\ doc.role \in Roles
    /\ Len(doc.location) <= 100

\* User.findOne({ email })
FindByEmail(coll, email) ==
    IF \E id \in DOMAIN coll : coll[id].email = email
    THEN coll[CHOOSE id \in DOMAIN coll : coll[id].email = email]
    ELSE NoDocument

\* User.findById(id)
FindById(coll, id) == IF id \in DOMAIN coll THEN coll[id] ELSE NoDocument

\* A document as a query without select() returns it: the paths declared
\* select: false are left out.
Unselected(doc) ==
    IF doc = NoDocument THEN doc
    ELSE [doc EXCEPT !.password = Absent, !.passwordResetToken = NoToken,
                     !.passwordResetExpires = NoTime]

\* The paths save() writes: those whose value differs from the loaded
\* document's, and the Date paths assigned a new Date().
Modified(loaded, edited, dates) ==
    {f \in DOMAIN loaded : edited[f] # loaded[f]} \cup dates

\* userSchema.pre('save') on a document that is not new
preSave(loaded, edited, dates, t) ==
    LET a == [edited EXCEPT !.isComplete = IsComplete(edited)]
        b == IF Modified(loaded, a, dates) # {} THEN [a EXCEPT !.lastUpdated = t] ELSE a
    IN  IF "lastLogin" \in Modified(loaded, a, dates)
        THEN [b EXCEPT !.totalLogins = @ + 1]
        ELSE b

\* doc.save() of a loaded document: the hook, then the modified paths are
\* written to the stored document of that _id.
save(coll, loaded, edited, dates, t) ==
    LET final == preSave(loaded, edited, dates, t)
        stamp == IF Modified(loaded, final, dates) # {} THEN {"lastUpdated"} ELSE {}
        paths == Modified(loaded, final, dates \cup stamp)
    IN  [coll EXCEPT ![loaded.id] =
            [f \in DOMAIN @ |-> IF f \in paths THEN final[f] ELSE @[f]]]

(***************************************************************************)
(* POST /api/auth/signup                                                   *)
(***************************************************************************)
\* The mutant: the password length test is off by two.
signupCheckShortPassword(body, coll) ==
    IF \/ body.firstName = Absent \/ body.lastName = Absent
       \/ body.email = Absent \/ body.password = NoPassword
    THEN [status |-> 400, error |-> "Missing required fields"]
    ELSE IF ~emailRegex(body.email)
    THEN [status |-> 400, error |-> "Invalid email format"]
    ELSE IF Len(body.password) < 6
    THEN [status |-> 400, error |-> "Weak password"]
    ELSE IF FindByEmail(coll, toLowerCase(body.email)) # NoDocument
    THEN [status |-> 409, error |-> "User already exists"]
    ELSE [status |-> 0, error |-> NULL]

\* The handler up to its first await and the answer to findOne: the status it
\* responds with, or 0 when it goes on to create the user.
signupCheck(body, coll) ==
    IF \/ body.firstName = Absent \/ body.lastName = Absent
       \/ body.email = Absent \/ body.password = NoPassword
    THEN [status |-> 400, error |-> "Missing required fields"]
    ELSE IF ~emailRegex(body.email)
    THEN [status |-> 400, error |-> "Invalid email format"]
    ELSE IF Len(body.password) < 8
    THEN [status |-> 400, error |-> "Weak password"]
    ELSE IF FindByEmail(coll, toLowerCase(body.email)) # NoDocument
    THEN [status |-> 409, error |-> "User already exists"]
    ELSE [status |-> 0, error |-> NULL]

\* The rest of the handler: hash, new User, save (validation, then the insert
\* under the unique index on email), token, 201; the catch answers 500.
signupCreate(body, coll, id, t) ==
    LET newUser == NewUser(body, id, t)
    IN  IF ~Validate(newUser)
        THEN [users |-> coll, status |-> 500, error |-> "ValidationError",
              token |-> NoToken]
        ELSE IF FindByEmail(coll, newUser.email) # NoDocument
        THEN [users |-> coll, status |-> 500, error |-> "E11000 duplicate key",
              token |-> NoToken]
        ELSE [users |-> coll @@ (id :> [newUser EXCEPT !.isComplete = IsComplete(newUser)]),
              status |-> 201, error |-> NULL,
              token |-> jwtSign(id, NULL, SevenDays, t)]

(***************************************************************************)
(* POST /api/auth/login                                                    *)
(***************************************************************************)
\* A mutant: the account locks one failed attempt late.
loginLookupLockAfterSix(body, coll, t) ==
    IF body.email = Absent \/ body.password = NoPassword
    THEN [status |-> 400, error |-> "Missing credentials", doc |-> NoDocument]
    ELSE LET user == FindByEmail(coll, toLowerCase(body.email))
         IN  IF user = NoDocument
             THEN [status |-> 401, error |-> "Invalid credentials", doc |-> NoDocument]
             ELSE IF /\ user.loginAttempts >= 6
                     /\ t < user.lastLoginAttempt + 30 * 60 * 1000
             THEN [status |-> 423, error |-> "Account locked", doc |-> NoDocument]
             ELSE [status |-> 0, error |-> NULL, doc |-> user]

\* A mutant: the email is looked up as typed.
loginLookupAsTyped(body, coll, t) ==
    IF body.email = Absent \/ body.password = NoPassword
    THEN [status |-> 400, error |-> "Missing credentials", doc |-> NoDocument]
    ELSE LET user == FindByEmail(coll, body.email)
         IN  IF user = NoDocument
             THEN [status |-> 401, error |-> "Invalid credentials", doc |-> NoDocument]
             ELSE IF /\ user.loginAttempts >= 5
                     /\ t < user.lastLoginAttempt + 30 * 60 * 1000
             THEN [status |-> 423, error |-> "Account locked", doc |-> NoDocument]
             ELSE [status |-> 0, error |-> NULL, doc |-> user]

\* The handler up to the lock check: the status it responds with, or 0 and the
\* document found when it goes on to compare the password.
loginLookup(body, coll, t) ==
    IF body.email = Absent \/ body.password = NoPassword
    THEN [status |-> 400, error |-> "Missing credentials", doc |-> NoDocument]
    ELSE LET user == FindByEmail(coll, toLowerCase(body.email))
         IN  IF user = NoDocument
             THEN [status |-> 401, error |-> "Invalid credentials", doc |-> NoDocument]
             ELSE IF /\ user.loginAttempts >= 5
                     /\ t < user.lastLoginAttempt + 30 * 60 * 1000
             THEN [status |-> 423, error |-> "Account locked", doc |-> NoDocument]
             ELSE [status |-> 0, error |-> NULL, doc |-> user]

\* A mutant: a successful login leaves loginAttempts as it is.
loginFinishKeepAttempts(body, user, coll, t) ==
    IF ~bcryptCompare(body.password, user.password)
    THEN [users |-> save(coll, user,
                         [user EXCEPT !.loginAttempts = @ + 1, !.lastLoginAttempt = t],
                         {"lastLoginAttempt"}, t),
          status |-> 401, error |-> "Invalid credentials", token |-> NoToken]
    ELSE [users |-> save(coll, user, [user EXCEPT !.lastLogin = t], {"lastLogin"}, t),
          status |-> 200, error |-> NULL,
          token |-> jwtSign(user.id, NULL,
                            IF body.rememberMe THEN ThirtyDays ELSE SevenDays, t)]

\* The rest of the handler, on the document found earlier.
loginFinish(body, user, coll, t) ==
    IF ~bcryptCompare(body.password, user.password)
    THEN [users |-> save(coll, user,
                         [user EXCEPT !.loginAttempts = @ + 1, !.lastLoginAttempt = t],
                         {"lastLoginAttempt"}, t),
          status |-> 401, error |-> "Invalid credentials", token |-> NoToken]
    ELSE [users |-> save(coll, user,
                         [user EXCEPT !.loginAttempts = 0, !.lastLogin = t],
                         {"lastLogin"}, t),
          status |-> 200, error |-> NULL,
          token |-> jwtSign(user.id, NULL,
                            IF body.rememberMe THEN ThirtyDays ELSE SevenDays, t)]

(***************************************************************************)
(* The auth middleware and DELETE /api/auth/account                        *)
(***************************************************************************)
\* A mutant: the verification ignores the expiry.
authLookupIgnoreExpiration(token, coll, t) ==
    IF token = NoToken
    THEN [status |-> 401, error |-> "No token provided", doc |-> NoDocument]
    ELSE IF jwtVerify(token, t) = "JsonWebTokenError"
    THEN [status |-> 401, error |-> "Token is malformed or invalid", doc |-> NoDocument]
    ELSE IF FindById(coll, token.userId) = NoDocument
    THEN [status |-> 401, error |-> "User not found", doc |-> NoDocument]
    ELSE [status |-> 0, error |-> NULL, doc |-> FindById(coll, token.userId)]

\* auth up to the answer of findById: the status it responds with, or 0 and the
\* document found when it goes on.
authLookup(token, coll, t) ==
    IF token = NoToken
    THEN [status |-> 401, error |-> "No token provided", doc |-> NoDocument]
    ELSE IF jwtVerify(token, t) = "JsonWebTokenError"
    THEN [status |-> 401, error |-> "Token is malformed or invalid", doc |-> NoDocument]
    ELSE IF jwtVerify(token, t) = "TokenExpiredError"
    THEN [status |-> 401, error |-> "Please log in again", doc |-> NoDocument]
    ELSE IF FindById(coll, token.userId) = NoDocument
    THEN [status |-> 401, error |-> "User not found", doc |-> NoDocument]
    ELSE [status |-> 0, error |-> NULL, doc |-> FindById(coll, token.userId)]

\* user.activity.lastActive = new Date(); await user.save()
authTouch(user, coll, t) ==
    save(coll, user, [user EXCEPT !.lastActive = t], {"lastActive"}, t)

\* The DELETE /account handler up to findById: 400, or 0 when it goes on.
deleteCheck(body) ==
    IF body.password = NoPassword \/ body.confirmation # "DELETE_MY_ACCOUNT"
    THEN [status |-> 400, error |-> "Invalid confirmation"]
    ELSE [status |-> 0, error |-> NULL]

\* A mutant: the password is not compared.
deleteLookupNoCompare(body, userId, coll) ==
    IF FindById(coll, userId) = NoDocument
    THEN [status |-> 404, error |-> "User not found"]
    ELSE [status |-> 0, error |-> NULL]

\* The handler on the answer of findById(...).select('+password'), through
\* bcrypt.compare: 404, 401, or 0 when it goes on to findByIdAndDelete.
deleteLookup(body, userId, coll) ==
    IF FindById(coll, userId) = NoDocument
    THEN [status |-> 404, error |-> "User not found"]
    ELSE IF ~bcryptCompare(body.password, FindById(coll, userId).password)
    THEN [status |-> 401, error |-> "Invalid password"]
    ELSE [status |-> 0, error |-> NULL]

\* User.findByIdAndDelete(id)
findByIdAndDelete(coll, id) == [i \in DOMAIN coll \ {id} |-> coll[i]]

(***************************************************************************)
(* POST /api/auth/forgot-password and POST /api/auth/reset-password        *)
(***************************************************************************)
ResetLinkSent ==
    "If an account with this email exists, a password reset link has been sent."

\* A mutant: an unknown email is answered 404.
forgotLookupNotFound(body, coll) ==
    IF body.email = Absent
    THEN [status |-> 400, message |-> "Email is required", doc |-> NoDocument]
    ELSE LET user == Unselected(FindByEmail(coll, toLowerCase(body.email)))
         IN  IF user = NoDocument
             THEN [status |-> 404, message |-> "User not found", doc |-> NoDocument]
             ELSE [status |-> 0, message |-> NULL, doc |-> user]

\* forgot-password up to the answer of findOne: the response, or 0 and the
\* document found when it goes on.
forgotLookup(body, coll) ==
    IF body.email = Absent
    THEN [status |-> 400, message |-> "Email is required", doc |-> NoDocument]
    ELSE LET user == Unselected(FindByEmail(coll, toLowerCase(body.email)))
         IN  IF user = NoDocument
             THEN [status |-> 200, message |-> ResetLinkSent, doc |-> NoDocument]
             ELSE [status |-> 0, message |-> NULL, doc |-> user]

\* The rest of forgot-password, at time t: the token is signed, saved with its
\* expiry, and the same 200 is sent.
forgotFinish(user, coll, t) ==
    LET resetToken == jwtSign(user.id, "password-reset", OneHour, t)
    IN  [users |-> save(coll, user,
                        [user EXCEPT !.passwordResetToken = resetToken,
                                     !.passwordResetExpires = t + 60 * 60 * 1000],
                        {"passwordResetExpires"}, t),
         status |-> 200, message |-> ResetLinkSent, token |-> resetToken]

\* reset-password up to findById: 400, 401, or 0 when it goes on.
resetCheck(body, t) ==
    IF body.token = NoToken \/ body.newPassword = NoPassword
    THEN [status |-> 400, error |-> "Missing required fields"]
    ELSE IF Len(body.newPassword) < 8
    THEN [status |-> 400, error |-> "Weak password"]
    ELSE IF jwtVerify(body.token, t) # "ok"
    THEN [status |-> 401, error |-> "Invalid token"]
    ELSE [status |-> 0, error |-> NULL]

\* The rest of reset-password, on the answer of findById(decoded.userId).
resetFinish(body, coll, t) ==
    LET user == Unselected(FindById(coll, body.token.userId))
    IN  IF user = NoDocument \/ user.passwordResetToken # body.token
        THEN [users |-> coll, status |-> 401, error |-> "Invalid token"]
        ELSE IF user.passwordResetExpires # NoTime /\ t > user.passwordResetExpires
        THEN [users |-> coll, status |-> 401, error |-> "Token expired"]
        ELSE [users |-> save(coll, user,
                             [user EXCEPT !.password = bcryptHash(body.newPassword),
                                          !.passwordResetToken = NoToken,
                                          !.passwordResetExpires = NoTime,
                                          !.loginAttempts = 0],
                             {}, t),
              status |-> 200, error |-> NULL]

(***************************************************************************)
(* PUT /api/auth/profile                                                   *)
(***************************************************************************)
\* A body without preferences, and schema.preferences.theme.enum
NoPreferences == [none |-> TRUE]
Themes == {"light", "dark", "auto"}

\* { ...user.preferences, ...preferences } under the schema: keys the schema
\* does not declare are dropped.
mergePreferences(stored, sent) ==
    [k \in DOMAIN stored |-> IF k \in DOMAIN sent THEN sent[k] ELSE stored[k]]

\* A mutant: the role of the body is assigned as well.
profileEditAssignRole(user, body, t) ==
    LET a == [user EXCEPT
                !.firstName = IF body.firstName # Absent THEN trim(body.firstName) ELSE @,
                !.lastName = IF body.lastName # Absent THEN trim(body.lastName) ELSE @,
                !.phone = IF body.phone # Absent THEN trim(body.phone) ELSE @,
                !.location = IF body.location # Absent THEN trim(body.location) ELSE @,
                !.preferences = IF body.preferences # NoPreferences
                                THEN mergePreferences(@, body.preferences) ELSE @,
                !.role = IF body.role # NULL THEN body.role ELSE @,
                !.lastUpdated = t]
    IN  [a EXCEPT !.isComplete = /\ a.firstName # Absent /\ a.lastName # Absent
                                 /\ a.phone # Absent /\ a.location # Absent]

\* The assignments of the handler to the loaded document, at time t.
profileEdit(user, body, t) ==
    LET a == [user EXCEPT
                !.firstName = IF body.firstName # Absent THEN trim(body.firstName) ELSE @,
                !.lastName = IF body.lastName # Absent THEN trim(body.lastName) ELSE @,
                !.phone = IF body.phone # Absent THEN trim(body.phone) ELSE @,
                !.location = IF body.location # Absent THEN trim(body.location) ELSE @,
                !.preferences = IF body.preferences # NoPreferences
                                THEN mergePreferences(@, body.preferences) ELSE @,
                !.lastUpdated = t]
    IN  [a EXCEPT !.isComplete = /\ a.firstName # Absent /\ a.lastName # Absent
                                 /\ a.phone # Absent /\ a.location # Absent]

\* The validators of the paths the handler can modify.
profileValid(doc) ==
    /\ doc.firstName # Absent /\ Len(doc.firstName) <= 50
    /\ doc.lastName # Absent /\ Len(doc.lastName) <= 50
    /\ (doc.phone = Absent \/ phoneMatch(doc.phone))
    /\ Len(doc.location) <= 100
    /\ doc.preferences.theme \in Themes

\* await user.save() and the response: 500 from the catch when a validator
\* rejects the document, else the modified paths are written and 200 is sent.
profileSave(loaded, edited, coll, t) ==
    IF ~profileValid(edited)
    THEN [users |-> coll, status |-> 500, error |-> "Profile update failed"]
    ELSE [users |-> save(coll, loaded, edited, {"lastUpdated"}, t),
          status |-> 200, error |-> NULL]

(***************************************************************************)
(* POST /api/chat (routes/chat.js)                                         *)
(***************************************************************************)
\* String.prototype.includes
includes(s, w) ==
    \E i \in 1..(Len(s) - Len(w) + 1) : \A k \in 1..Len(w) : s[i + k - 1] = w[k]

\* The keywords of generateAIResponse, by the answer they select
WordsPh ==
    {<<"p", "h">>,
     <<"a", "c", "i", "d", "i", "t", "y">>,
     <<"a", "l", "k", "a", "l", "i", "n", "e">>}
WordsTds ==
    {<<"t", "d", "s">>,
     <<"d", "i", "s", "s", "o", "l", "v", "e", "d", " ", "s", "o", "l", "i", "d", "s">>,
     <<"m", "i", "n", "e", "r", "a", "l", "s">>}
WordsBacteria ==
    {<<"b", "a", "c", "t", "e", "r", "i", "a">>,
     <<"e", ".", " ", "c", "o", "l", "i">>,
     <<"m", "i", "c", "r", "o", "b">>,
     <<"p", "a", "t", "h", "o", "g", "e", "n">>}
WordsTreatment ==
    {<<"f", "i", "l", "t", "e", "r">>,
     <<"t", "r", "e", "a", "t", "m", "e", "n", "t">>,
     <<"p", "u", "r", "i", "f">>,
     <<"c", "l", "e", "a", "n">>}
WordsTurbidity ==
    {<<"t", "u", "r", "b", "i", "d", "i", "t", "y">>,
     <<"c", "l", "o", "u", "d", "y">>,
     <<"c", "l", "e", "a", "r">>,
     <<"v", "i", "s", "i", "b", "i", "l", "i", "t", "y">>}
WordsChlorine ==
    {<<"c", "h", "l", "o", "r", "i", "n", "e">>,
     <<"d", "i", "s", "i", "n", "f", "e", "c", "t">>,
     <<"c", "h", "e", "m", "i", "c", "a", "l">>}

\* The answer generateAIResponse resolves to, named by its topic
generateAIResponse(message) ==
    LET lowercaseMessage == toLowerCase(message)
    IN  IF \E w \in WordsPh : includes(lowercaseMessage, w) THEN "ph"
        ELSE IF \E w \in WordsTds : includes(lowercaseMessage, w) THEN "tds"
        ELSE IF \E w \in WordsBacteria : includes(lowercaseMessage, w) THEN "bacteria"
        ELSE IF \E w \in WordsTreatment : includes(lowercaseMessage, w) THEN "treatment"
        ELSE IF \E w \in WordsTurbidity : includes(lowercaseMessage, w) THEN "turbidity"
        ELSE IF \E w \in WordsChlorine : includes(lowercaseMessage, w) THEN "chlorine"
         ELSE "general"

\* req.body.message: undefined, a string or a number other than 0
NoMessage == [kind |-> "undefined", text |-> <<>>]
SomeNumber == [kind |-> "number", text |-> <<>>]
String(text) == [kind |-> "string", text |-> text]
Fill(n) == [i \in 1..n |-> "a"]

\* The input validation of the handler: the status it responds with, or 0
\* when it goes on to generateAIResponse. message.trim of a value that is
\* not a string throws, and the catch answers 500.
chatCheck(message) ==
    IF message.kind = "undefined" \/ (message.kind = "string" /\ message.text = <<>>)
    THEN [status |-> 400, error |-> "Empty message"]
    ELSE IF message.kind # "string"
    THEN [status |-> 500, error |-> "Chat processing failed"]
    ELSE IF Len(trim(message.text)) = 0
    THEN [status |-> 400, error |-> "Empty message"]
    ELSE IF Len(message.text) > 2000
    THEN [status |-> 400, error |-> "Message too long"]
    ELSE [status |-> 0, error |-> NULL]

NoChatResponse == [status |-> 0, error |-> NULL, answer |-> NULL, message |-> NoMessage]
ChatInit == chatPending = {} /\ chatRes = NoChatResponse

\* The messages sent
ChatMessages ==
    {NoMessage, SomeNumber} \cup
    {String(t) : t \in {<<>>, <<" ">>, <<" ", " ">>, <<"p", "H">>, <<" ", "a">>,
                        Fill(1), Fill(1999), Fill(2000), Fill(2001),
                        <<" ">> \o Fill(1999)}}

\* POST /api/chat up to the await of generateAIResponse
ChatPost(message) ==
    LET out == chatCheck(message)
    IN  /\ Cardinality(chatPending) < MaxChats
        /\ message \notin chatPending
        /\ IF out.status # 0
           THEN /\ chatRes' = [status |-> out.status, error |-> out.error,
                               answer |-> NULL, message |-> message]
                /\ UNCHANGED chatPending
           ELSE /\ chatPending' = chatPending \cup {message}
                /\ UNCHANGED chatRes

\* generateAIResponse resolves and the handler answers.
ChatAnswer(message) ==
    /\ message \in chatPending
    /\ chatPending' = chatPending \ {message}
    /\ chatRes' = [status |-> 200, error |-> NULL,
                   answer |-> generateAIResponse(message.text), message |-> message]

(***************************************************************************)
(* Shutdown (server.js, config/db.js)                                      *)
(***************************************************************************)
NoExit == -1
\* server.js listens for SIGTERM and SIGINT from the start; config/db.js adds
\* gracefulShutdown for SIGINT, SIGTERM and SIGUSR2 once mongoose is connected.
ServerSignals == {"SIGTERM", "SIGINT"}
DbSignals == {"SIGINT", "SIGTERM", "SIGUSR2"}

\* After the module was loaded: listening, mongoose.connect pending.
SdInit ==
    /\ sdServer = "listening" /\ sdConns = 0 /\ sdDb = "connecting"
    /\ sdSignals = <<>> /\ sdCloseCb = FALSE /\ sdExit = NoExit

\* mongoose.connect resolves; setupConnectionListeners registers the handlers.
SdDbConnected ==
    /\ sdExit = NoExit /\ sdDb = "connecting"
    /\ sdDb' = "connected"
    /\ UNCHANGED <<sdServer, sdConns, sdSignals, sdCloseCb, sdExit>>

\* A client connects to the listening server.
SdConnOpen ==
    /\ sdExit = NoExit /\ sdServer = "listening" /\ sdConns < MaxConns
    /\ sdConns' = sdConns + 1
    /\ UNCHANGED <<sdServer, sdDb, sdSignals, sdCloseCb, sdExit>>

\* A connection ends. When it was the last one of a server that has stopped
\* listening, 'close' is emitted on the next tick and the callback of
\* server.close runs process.exit(0).
SdConnEnd ==
    LET drained == sdServer = "closing" /\ sdConns = 1
    IN  /\ sdExit = NoExit /\ sdConns > 0
        /\ sdConns' = sdConns - 1
        /\ sdServer' = IF drained THEN "closed" ELSE sdServer
        /\ sdCloseCb' = drained
        /\ sdExit' = IF drained THEN 0 ELSE sdExit
        /\ UNCHANGED <<sdDb, sdSignals>>

\* A signal is delivered: the handlers registered for it run in the order of
\* their registration. server.js calls server.close(callback): the server
\* stops listening, and with no connection open 'close' is emitted on the
\* next tick, where the callback runs process.exit(0). gracefulShutdown runs
\* up to its await of mongoose.connection.close().
SdSignal(signal) ==
    LET closes == signal \in ServerSignals /\ sdServer = "listening"
        drained == closes /\ sdConns = 0
    IN  /\ sdExit = NoExit /\ Len(sdSignals) < MaxSignals
        /\ signal \in ServerSignals \/ sdDb # "connecting"
        /\ sdSignals' = Append(sdSignals, signal)
        /\ sdServer' = IF drained THEN "closed" ELSE IF closes THEN "closing" ELSE sdServer
        /\ sdDb' = IF signal \in DbSignals /\ sdDb = "connected" THEN "closing" ELSE sdDb
        /\ sdCloseCb' = drained
        /\ sdExit' = IF drained THEN 0 ELSE sdExit
        /\ UNCHANGED sdConns

\* mongoose.connection.close() resolves: gracefulShutdown runs process.exit(0).
SdDbClosed ==
    /\ sdExit = NoExit /\ sdDb = "closing"
    /\ sdDb' = "closed" /\ sdExit' = 0
    /\ UNCHANGED <<sdServer, sdConns, sdSignals, sdCloseCb>>

(***************************************************************************)
(* The photos of the report form (frontend/report.js)                      *)
(***************************************************************************)
\* A file as processFiles reads it
File(name, size, type) == [name |-> name, size |-> size, type |-> type]
Files ==
    {File("a.png", 1024, "image/png"), File("b.jpg", 2048, "image/jpeg"),
     File("c.png", 4096, "image/png"), File("big.png", 10 * 1024 * 1024 + 1, "image/png"),
     File("notes.pdf", 1024, "application/pdf")}
allowedTypes == {"image/jpeg", "image/jpg", "image/png", "image/heic", "image/webp"}

\* processFiles: the files handed to a FileReader; none when the selection
\* would exceed the limit.
processFiles(files, photos) ==
    IF Len(photos) + Cardinality(files) > 5
    THEN {}
    ELSE {file \in files :
            /\ ~(file.size > 10 * 1024 * 1024)
            /\ file.type \in allowedTypes
            /\ ~\E i \in 1..Len(photos) :
                    photos[i].name = file.name /\ photos[i].size = file.size}

\* Array.prototype.filter on the index of the photo with the given id
Without(photos, i) == [k \in 1..(Len(photos) - 1) |-> IF k < i THEN photos[k] ELSE photos[k + 1]]

PhInit ==
    /\ uploadedPhotos = <<>> /\ phReaders = EmptyBag /\ phDraft = <<>>
    /\ phEvents = 0

\* handleFileSelection: the change event of the file input.
PhSelect(files) ==
    /\ phEvents < MaxPhotoEvents
    /\ phEvents' = phEvents + 1
    /\ phReaders' = phReaders (+) SetToBag(processFiles(files, uploadedPhotos))
    /\ UNCHANGED <<uploadedPhotos, phDraft>>

\* handleDrop: files dropped on the upload area.
PhDrop(files) ==
    /\ phEvents < MaxPhotoEvents
    /\ phEvents' = phEvents + 1
    /\ phReaders' = phReaders (+) SetToBag(processFiles(files, uploadedPhotos))
    /\ UNCHANGED <<uploadedPhotos, phDraft>>

\* reader.onload: the photo is pushed and the draft is saved.
PhLoaded(file) ==
    /\ BagIn(file, phReaders)
    /\ phReaders' = phReaders (-) SetToBag({file})
    /\ uploadedPhotos' = Append(uploadedPhotos, [name |-> file.name, size |-> file.size])
    /\ phDraft' = uploadedPhotos'
    /\ UNCHANGED phEvents

\* removePhoto of the i-th photo's id; the draft is saved.
PhRemove(i) ==
    /\ phEvents < MaxPhotoEvents
    /\ i \in 1..Len(uploadedPhotos)
    /\ phEvents' = phEvents + 1
    /\ uploadedPhotos' = Without(uploadedPhotos, i)
    /\ phDraft' = uploadedPhotos'
    /\ UNCHANGED phReaders

\* The page is loaded again: the script starts over and loadSavedFormData
\* restores the photos of the draft.
PhReload ==
    /\ phEvents < MaxPhotoEvents
    /\ phEvents' = phEvents + 1
    /\ uploadedPhotos' = IF Len(phDraft) > 0 THEN phDraft ELSE <<>>
    /\ phReaders' = EmptyBag
    /\ UNCHANGED phDraft

(***************************************************************************)
(* Offline reports (frontend/report.js)                                    *)
(***************************************************************************)
\* The page was loaded online; nothing is stored.
OffInit ==
    /\ isOnline = TRUE /\ offlineReports = <<>> /\ syncs = EmptyBag
    /\ serverReports = {} /\ savedOffline = {}
    /\ reportCount = 0 /\ netEvents = 0

\* The ids of a list of reports
Ids(reports) == {reports[i] : i \in 1..Len(reports)}

\* Array.prototype.filter
RECURSIVE Filter(_, _)
Filter(reports, keep) ==
    IF reports = <<>> THEN <<>>
    ELSE IF Head(reports) \in keep
    THEN <<Head(reports)>> \o Filter(Tail(reports), keep)
    ELSE Filter(Tail(reports), keep)

\* syncOfflineReports up to its awaits: the stored reports are read, and one
\* fetch per report is started; nothing when none is stored.
syncStart(stored) ==
    IF Len(stored) = 0 THEN EmptyBag
    ELSE SetToBag({[snapshot |-> stored, results |-> [id \in Ids(stored) |-> "pending"]]})

\* syncOfflineReports after Promise.all: the list written back to
\* localStorage, or the stored list as it is when no report was synced.
syncFinish(sync, stored) ==
    LET successfulSyncs == {id \in DOMAIN sync.results : sync.results[id] = "ok"}
    IN  IF successfulSyncs # {}
        THEN Filter(sync.snapshot, Ids(sync.snapshot) \ successfulSyncs)
        ELSE stored

\* handleOnline: the online event.
OffOnline ==
    /\ ~isOnline /\ netEvents < MaxNetEvents
    /\ netEvents' = netEvents + 1
    /\ isOnline' = TRUE
    /\ syncs' = syncs (+) syncStart(offlineReports)
    /\ UNCHANGED <<offlineReports, serverReports, savedOffline, reportCount>>

\* handleOffline: the offline event.
OffOffline ==
    /\ isOnline /\ netEvents < MaxNetEvents
    /\ netEvents' = netEvents + 1
    /\ isOnline' = FALSE
    /\ UNCHANGED <<offlineReports, syncs, serverReports, savedOffline, reportCount>>

\* handleFormSubmission of a valid form: submitOnline, whose POST the server
\* answers ok or not, or submitOffline.
OffSubmit(ok) ==
    LET id == reportCount + 1
    IN  /\ reportCount < MaxReports
        /\ reportCount' = id
        /\ IF isOnline
           THEN /\ serverReports' = IF ok THEN serverReports \cup {id} ELSE serverReports
                /\ UNCHANGED <<offlineReports, savedOffline>>
           ELSE /\ offlineReports' = Append(offlineReports, id)
                /\ savedOffline' = savedOffline \cup {id}
                /\ UNCHANGED serverReports
        /\ UNCHANGED <<isOnline, syncs, netEvents>>

\* The fetch of one report of a running sync completes, ok only while the
\* page is online. After the last one Promise.all resolves and the sync
\* writes the remaining reports back.
OffFetchDone(sync, id, ok) ==
    LET done == [sync EXCEPT !.results[id] = IF ok THEN "ok" ELSE "failed"]
        settled == \A other \in DOMAIN done.results : done.results[other] # "pending"
    IN  /\ BagIn(sync, syncs)
        /\ id \in DOMAIN sync.results /\ sync.results[id] = "pending"
        /\ ok => isOnline
        /\ serverReports' = IF ok THEN serverReports \cup {id} ELSE serverReports
        /\ syncs' = IF settled THEN syncs (-) SetToBag({sync})
                     ELSE (syncs (-) SetToBag({sync})) (+) SetToBag({done})
        /\ offlineReports' = IF settled THEN syncFinish(done, offlineReports)
                              ELSE offlineReports
        /\ UNCHANGED <<isOnline, savedOffline, reportCount, netEvents>>

(***************************************************************************)
(* Requests                                                                *)
(***************************************************************************)
\* The requests in flight are a bag of records [pc, body, ...]: two requests
\* that stand at the same await with the same data are told apart by no code.
InFlight == BagCardinality(reqs)
Park(r) == reqs' = reqs (+) SetToBag({r})
Resume(r, pc) == BagIn(r, reqs) /\ r.pc = pc
Finish(r) == reqs' = reqs (-) SetToBag({r})

Respond(op, email, status, error, token) ==
    last' = [flip |-> ~last.flip, op |-> op, email |-> email, status |-> status,
             error |-> error, token |-> token]

TooManyRequests(op, email) == Respond(op, email, 429, "Too many requests", NoToken)

AuthInit ==
    /\ now = 0
    /\ users = <<>>
    /\ nextId = 1
    /\ limiter = [route \in LimitedRoutes |-> NoHits]
    /\ reqs = EmptyBag
    /\ last = [flip |-> FALSE, op |-> NULL, email |-> Absent, status |-> 0,
               error |-> NULL, token |-> NoToken]

\* The state after one client has signed up at time 0 and been answered 201.
SignedUp == signupCreate(BaseSignup, <<>>, 1, 0)

SignedUpInit ==
    /\ now = 0
    /\ users = SignedUp.users
    /\ nextId = 2
    /\ limiter = [route \in LimitedRoutes |->
                    IF route = "signup" THEN rateLimiter(5, 15, NoHits, 0).entry
                    ELSE NoHits]
    /\ reqs = EmptyBag
    /\ last = [flip |-> TRUE, op |-> "signup", email |-> BaseSignup.email,
               status |-> SignedUp.status, error |-> SignedUp.error,
               token |-> SignedUp.token]

\* A signup request arrives: ratelimiter(5, 15), then the handler up to findOne.
SignupFind(body) ==
    LET lim == rateLimiter(5, 15, limiter["signup"], now)
        out == signupCheck(body, users)
    IN  /\ InFlight < MaxSlots
        /\ nextId + InFlight <= MaxIds
        /\ limiter' = [limiter EXCEPT !["signup"] = lim.entry]
        /\ IF lim.blocked
           THEN TooManyRequests("signup", body.email) /\ UNCHANGED reqs
           ELSE IF out.status # 0
           THEN Respond("signup", body.email, out.status, out.error, NoToken)
                /\ UNCHANGED reqs
           ELSE Park([pc |-> "signup", body |-> body]) /\ UNCHANGED last
        /\ UNCHANGED <<now, users, nextId>>

\* The signup handler after findOne found nothing.
SignupSave(r) ==
    LET out == signupCreate(r.body, users, nextId, now)
    IN  /\ Resume(r, "signup")
        /\ users' = out.users
        /\ nextId' = IF out.status = 201 THEN nextId + 1 ELSE nextId
        /\ Respond("signup", r.body.email, out.status, out.error, out.token)
        /\ Finish(r)
        /\ UNCHANGED <<now, limiter>>

\* A login request arrives: ratelimiter(10, 15), then the handler up to the
\* lock check on the document findOne returned.
LoginFind(body) ==
    LET lim == rateLimiter(10, 15, limiter["login"], now)
        out == loginLookup(body, users, now)
    IN  /\ InFlight < MaxSlots
        /\ \A id \in DOMAIN users : users[id].totalLogins < MaxLogins
        /\ limiter' = [limiter EXCEPT !["login"] = lim.entry]
        /\ IF lim.blocked
           THEN TooManyRequests("login", body.email) /\ UNCHANGED reqs
           ELSE IF out.status # 0
           THEN Respond("login", body.email, out.status, out.error, NoToken)
                /\ UNCHANGED reqs
           ELSE Park([pc |-> "login", body |-> body, doc |-> out.doc])
                /\ UNCHANGED last
        /\ UNCHANGED <<now, users, nextId>>

\* The login handler after the lock check: bcrypt.compare, save, response.
LoginFinish(r) ==
    LET out == loginFinish(r.body, r.doc, users, now)
    IN  /\ Resume(r, "login")
        /\ users' = out.users
        /\ Respond("login", r.body.email, out.status, out.error, out.token)
        /\ Finish(r)
        /\ UNCHANGED <<now, nextId, limiter>>

\* The logins of clients that do not wait for each other's answers
RaceLogins ==
    {[email |-> EmailA, password |-> Password2, rememberMe |-> FALSE],
     [email |-> EmailA, password |-> Password1, rememberMe |-> FALSE]}

\* A login arrives while others may be in flight.
LoginRaceFind(body) == LoginFind(body) /\ UNCHANGED wrongChecks

\* bcrypt.compare, save and the response of a login in flight; the wrong
\* passwords compared since the last successful login are counted.
LoginRaceFinish(r) ==
    /\ LoginFinish(r)
    /\ wrongChecks' = IF bcryptCompare(r.body.password, r.doc.password)
                       THEN 0 ELSE wrongChecks + 1

\* The state after a client has signed up at time 0 and then logged in with
\* rememberMe.
RememberMeLogin == [email |-> EmailA, password |-> Password1, rememberMe |-> TRUE]
LoggedIn == loginFinish(RememberMeLogin, FindById(SignedUp.users, 1),
                        SignedUp.users, 0)

AccountInit ==
    /\ now = 0
    /\ users = LoggedIn.users
    /\ nextId = 2
    /\ limiter = [route \in LimitedRoutes |->
                    IF route = "signup" THEN rateLimiter(5, 15, NoHits, 0).entry
                    ELSE rateLimiter(10, 15, NoHits, 0).entry]
    /\ reqs = EmptyBag
    /\ last = [flip |-> FALSE, op |-> "login", email |-> RememberMeLogin.email,
               status |-> LoggedIn.status, error |-> LoggedIn.error,
               token |-> LoggedIn.token]

\* The state after a second client has signed up at time 0 as well.
SignedUpTwo ==
    signupCreate([BaseSignup EXCEPT !.email = EmailB, !.password = Password2],
                 SignedUp.users, 2, 0)

TwoAccountsInit ==
    /\ now = 0
    /\ users = SignedUpTwo.users
    /\ nextId = 3
    /\ limiter = [route \in LimitedRoutes |->
                    IF route = "signup"
                    THEN rateLimiter(5, 15, rateLimiter(5, 15, NoHits, 0).entry, 0).entry
                    ELSE NoHits]
    /\ reqs = EmptyBag
    /\ last = [flip |-> FALSE, op |-> "signup", email |-> EmailB,
               status |-> SignedUpTwo.status, error |-> SignedUpTwo.error,
               token |-> SignedUpTwo.token]

\* What a request can put in Authorization / x-auth-token / ?token=
Garbage == [NoToken EXCEPT !.kind = "garbage"]
Forged == [SignedUp.token EXCEPT !.key = "attacker-key"]
PresentedTokens ==
    {NoToken, Garbage, Forged, SignedUp.token, LoggedIn.token}

\* DELETE /account bodies
DeleteBodies ==
    {[password |-> Password1, confirmation |-> "DELETE_MY_ACCOUNT"],
     [password |-> Password2, confirmation |-> "DELETE_MY_ACCOUNT"],
     [password |-> Password1, confirmation |-> "delete my account"],
     [password |-> NoPassword, confirmation |-> "DELETE_MY_ACCOUNT"]}
AccountRequests == [route : {"delete"}, token : PresentedTokens, body : DeleteBodies]
\* DELETE /account requests of the two clients, each with its signup token
OwnerRequests ==
    [route : {"delete"}, token : {SignedUp.token, SignedUpTwo.token}, body : DeleteBodies]

\* PUT /profile bodies: the fields the handler reads (Absent: not sent) and
\* fields it does not read
PhoneOk == <<"7", "1", "2">>
Nairobi == <<"N", "b", "o">>
BaseProfile ==
    [firstName |-> Absent, lastName |-> Absent, phone |-> Absent, location |-> Absent,
     preferences |-> NoPreferences, email |-> Absent, role |-> NULL,
     password |-> NoPassword]
ProfileBodies ==
    {BaseProfile,
     [BaseProfile EXCEPT !.firstName = Lee, !.lastName = Ann],
     [BaseProfile EXCEPT !.firstName = LongName],
     [BaseProfile EXCEPT !.phone = PhoneOk, !.location = Nairobi],
     [BaseProfile EXCEPT !.phone = PhoneBad],
     [BaseProfile EXCEPT !.preferences = [theme |-> "dark"]],
     [BaseProfile EXCEPT !.preferences = [theme |-> "neon"]],
     [BaseProfile EXCEPT !.preferences = [newsletter |-> TRUE, role |-> "admin"],
                         !.email = EmailNoDot, !.role = "admin",
                         !.password = Password2]}
ProfileRequests ==
    [route : {"profile"}, token : {SignedUp.token}, body : ProfileBodies]

\* A DELETE /account request arrives: auth up to the answer of findById.
AuthFind(req) ==
    LET out == authLookup(req.token, users, now)
    IN  /\ InFlight < MaxSlots
        /\ IF out.status # 0
           THEN Respond("auth", Absent, out.status, out.error, NoToken)
                /\ UNCHANGED reqs
           ELSE Park([pc |-> "auth", route |-> req.route, token |-> req.token,
                      body |-> req.body, doc |-> out.doc])
                /\ UNCHANGED last
        /\ UNCHANGED <<now, users, nextId, limiter>>

\* next(): the route handler runs up to its findById.
DeleteStart(r) ==
    LET out == deleteCheck(r.body)
    IN  IF out.status # 0
        THEN Respond("delete", Absent, out.status, out.error, NoToken)
             /\ Finish(r)
        ELSE reqs' = (reqs (-) SetToBag({r})) (+) SetToBag({[r EXCEPT !.pc = "delete"]})
             /\ UNCHANGED last

\* next(): the PUT /profile handler runs up to its findById.
ProfileStart(r) ==
    /\ reqs' = (reqs (-) SetToBag({r})) (+) SetToBag({[r EXCEPT !.pc = "profile"]})
    /\ UNCHANGED last

\* next(): the handler of the request's route
RouteStart(r) == IF r.route = "profile" THEN ProfileStart(r) ELSE DeleteStart(r)

\* auth after findById: the save of lastActive, then next().  The save of a
\* document deleted meanwhile either throws (the catch answers 500) or
\* writes nothing, by the version of the library.
AuthSave(r) ==
    /\ Resume(r, "auth")
    /\ IF r.doc.id \in DOMAIN users
       THEN users' = authTouch(r.doc, users, now) /\ RouteStart(r)
       ELSE /\ UNCHANGED users
            /\ \/ Respond("auth", Absent, 500, "Authentication error", NoToken)
                  /\ Finish(r)
               \/ RouteStart(r)
    /\ UNCHANGED <<now, nextId, limiter>>

\* The handler on the answer of findById, through bcrypt.compare.
DeleteFind(r) ==
    LET out == deleteLookup(r.body, r.token.userId, users)
    IN  /\ Resume(r, "delete")
        /\ IF out.status # 0
           THEN Respond("delete", Absent, out.status, out.error, NoToken)
                /\ Finish(r)
           ELSE reqs' = (reqs (-) SetToBag({r})) (+) SetToBag({[r EXCEPT !.pc = "deleting"]})
                /\ UNCHANGED last
        /\ UNCHANGED <<now, users, nextId, limiter>>

\* findByIdAndDelete takes effect and the handler answers 200.
DeleteDone(r) ==
    /\ Resume(r, "deleting")
    /\ users' = findByIdAndDelete(users, r.token.userId)
    /\ Respond("delete", Absent, 200, NULL, NoToken)
    /\ Finish(r)
    /\ UNCHANGED <<now, nextId, limiter>>

\* The PUT /profile handler on the answer of findById: 404, or the assignments
\* and the call of save().
ProfileFind(r) ==
    LET user == Unselected(FindById(users, r.token.userId))
    IN  /\ Resume(r, "profile")
        /\ IF user = NoDocument
           THEN Respond("profile", Absent, 404, "User not found", NoToken)
                /\ Finish(r)
           ELSE reqs' = (reqs (-) SetToBag({r})) (+)
                        SetToBag({[r EXCEPT !.pc = "profile-save", !.doc = user,
                                            !.body = profileEdit(user, r.body, now)]})
                /\ UNCHANGED last
        /\ UNCHANGED <<now, users, nextId, limiter>>

\* save() takes effect (or is refused) and the handler answers.
ProfileSave(r) ==
    LET out == profileSave(r.doc, r.body, users, now)
    IN  /\ Resume(r, "profile-save")
        /\ r.doc.id \in DOMAIN users
        /\ users' = out.users
        /\ Respond("profile", Absent, out.status, out.error, NoToken)
        /\ Finish(r)
        /\ UNCHANGED <<now, nextId, limiter>>

\* A week passes.
TickWeek ==
    /\ now < MaxAccountWeeks * SevenDays * 1000
    /\ now' = now + SevenDays * 1000
    /\ UNCHANGED <<users, nextId, limiter, reqs, last>>

\* POST /forgot-password and /reset-password bodies
ForgotBodies == {[email |-> e] : e \in {EmailA, EmailAUpper, EmailB, Absent}}
ResetTimes == {h * OneHour * 1000 : h \in 0..MaxResetHours}
ResetTokens == {jwtSign(1, "password-reset", OneHour, t) : t \in ResetTimes}
ResetBodies ==
    [token : ResetTokens \cup {NoToken, Garbage, SignedUp.token},
     newPassword : {Password2}]
    \cup [token : {jwtSign(1, "password-reset", OneHour, 0)},
          newPassword : {ShortPassword, NoPassword}]

\* A forgot-password request arrives: ratelimiter(3, 60), then the handler up
\* to the answer of findOne.
ForgotFind(body) ==
    LET lim == rateLimiter(3, 60, limiter["forgot-password"], now)
        out == forgotLookup(body, users)
    IN  /\ InFlight < MaxSlots
        /\ limiter' = [limiter EXCEPT !["forgot-password"] = lim.entry]
        /\ IF lim.blocked
           THEN TooManyRequests("forgot-password", body.email) /\ UNCHANGED reqs
           ELSE IF out.status # 0
           THEN Respond("forgot-password", body.email, out.status, out.message, NoToken)
                /\ UNCHANGED reqs
           ELSE Park([pc |-> "forgot-password", body |-> body, doc |-> out.doc])
                /\ UNCHANGED last
        /\ UNCHANGED <<now, users, nextId>>

\* The forgot-password handler after findOne found the user.  The response
\* does not carry the token; it goes to the log, from which the user of the
\* account takes it.
ForgotSave(r) ==
    LET out == forgotFinish(r.doc, users, now)
    IN  /\ Resume(r, "forgot-password")
        /\ users' = out.users
        /\ Respond("forgot-password", r.body.email, out.status, out.message, NoToken)
        /\ Finish(r)
        /\ UNCHANGED <<now, nextId, limiter>>

\* A reset-password request arrives: the handler up to findById.
ResetFind(body) ==
    LET out == resetCheck(body, now)
    IN  /\ InFlight < MaxSlots
        /\ IF out.status # 0
           THEN Respond("reset-password", Absent, out.status, out.error, NoToken)
                /\ UNCHANGED reqs
           ELSE Park([pc |-> "reset-password", body |-> body, doc |-> NoDocument])
                /\ UNCHANGED last
        /\ UNCHANGED <<now, users, nextId, limiter>>

\* The reset-password handler on the answer of findById, through bcrypt.hash
\* and save.
ResetFinish(r) ==
    LET out == resetFinish(r.body, users, now)
    IN  /\ Resume(r, "reset-password")
        /\ users' = out.users
        /\ Respond("reset-password", Absent, out.status, out.error, NoToken)
        /\ Finish(r)
        /\ UNCHANGED <<now, nextId, limiter>>

\* An hour passes.
TickHour ==
    /\ now < MaxResetHours * OneHour * 1000
    /\ now' = now + OneHour * 1000
    /\ UNCHANGED <<users, nextId, limiter, reqs, last>>

\* Time passes.
Tick(maxTicks) ==
    /\ now < maxTicks * TickMs
    /\ now' = now + TickMs
    /\ UNCHANGED <<users, nextId, limiter, reqs, last>>

(***************************************************************************)
(* Claims about POST /api/auth/signup                                      *)
(***************************************************************************)
\* The route's limiter has already let 5 requests of this window through.
SignupLimited == limiter["signup"].resetTime > now /\ limiter["signup"].hits >= 5

\* local@domain.tld, no part empty, no whitespace and no further "@"
C5_LocalAtDomainTld(e) ==
    \E at, dot \in 1..Len(e) :
        LET local == SubSeq(e, 1, at - 1)
            domain == SubSeq(e, at + 1, dot - 1)
            tld == SubSeq(e, dot + 1, Len(e))
            Clean(part) == part # <<>> /\ \A k \in 1..Len(part) : part[k] \notin {" ", "@"}
        IN  e[at] = "@" /\ e[dot] = "." /\ at < dot
            /\ Clean(local) /\ Clean(domain) /\ Clean(tld)

\* The requests C5 is about.
C5_Invalid(body) ==
    \/ body.firstName = <<>> \/ body.lastName = <<>>
    \/ body.email = <<>> \/ body.password = ""
    \/ ~C5_LocalAtDomainTld(body.email)
    \/ Len(body.password) < 8

C5_InvalidBodies == {body \in SignupBodies : C5_Invalid(body)}

\* C5 as stated: a signup request that lacks firstName, lastName, email or
\* password, or whose email is not of the form local@domain.tld, or whose
\* password is shorter than 8 characters, is answered 400 and leaves the
\* stored users unchanged.
C5_InvalidSignupIs400 ==
    [][\A body \in C5_InvalidBodies :
        SignupFind(body) =>
            /\ last'.op = "signup" /\ last'.status = 400
            /\ users' = users /\ reqs' = reqs]_vars

\* C5 as amended: such a request is answered 400, or 429 when the route's rate
\* limiter has already admitted 5 requests of the client in the current 15
\* minutes; either way the stored users are unchanged and the handler is done.
C5_InvalidSignupRejected ==
    [][\A body \in C5_InvalidBodies :
        SignupFind(body) =>
            /\ last' # last /\ last'.op = "signup"
            /\ last'.status = IF SignupLimited THEN 429 ELSE 400
            /\ users' = users /\ reqs' = reqs]_vars

\* C5 witness: a password of 7 characters was answered 400 'Weak password'
\* while a user was stored.
C5_Witness ==
    /\ last.op = "signup" /\ last.status = 400 /\ last.error = "Weak password"
    /\ DOMAIN users # {}

\* C6: a signup request rejected because its data fails User-schema validation
\* is answered 400 (and creates no user).
C6_ValidationErrorIs400 ==
    last.op = "signup" /\ last.error = "ValidationError" => last.status = 400

\* C7: a signup request that passes the route's checks and the rate limiter
\* and whose data the User schema accepts, for an email (compared
\* case-insensitively) for which an account already exists or is created first
\* by another request, is answered 409.
C7_DuplicateIs409 ==
    [][/\ \A body \in SignupBodies :
            /\ SignupFind(body) /\ ~SignupLimited /\ ~C5_Invalid(body)
            /\ FindByEmail(users, toLowerCase(body.email)) # NoDocument
            => last' # last /\ last'.status = 409
       /\ \A r \in BagToSet(reqs) :
            /\ SignupSave(r) /\ Validate(NewUser(r.body, nextId, now))
            /\ FindByEmail(users, toLowerCase(r.body.email)) # NoDocument
            => last'.status = 409]_vars

(***************************************************************************)
(* Claims about POST /api/auth/login                                       *)
(***************************************************************************)
\* The route's limiter has already let 10 requests of this window through.
LoginLimited == limiter["login"].resetTime > now /\ limiter["login"].hits >= 10

\* Two emails that differ at most in letter case
SameEmail(e1, e2) ==
    /\ Len(e1) = Len(e2)
    /\ \A k \in 1..Len(e1) : LowerChar(e1[k]) = LowerChar(e2[k])

\* The account of the request's email is locked now.
C1_Locked(body) ==
    \E id \in DOMAIN users :
        /\ SameEmail(users[id].email, body.email)
        /\ users[id].loginAttempts >= 5
        /\ users[id].lastLoginAttempt # NoTime
        /\ now - users[id].lastLoginAttempt < 30 * 60 * 1000

\* C1 as stated: once an account's loginAttempts is 5 or more, a login request
\* with an email and a password that arrives less than 30 minutes after
\* lastLoginAttempt is answered 423, whatever the password, and leaves the
\* account's loginAttempts, lastLoginAttempt and lastLogin unchanged.
C1_LockedIs423 ==
    [][\A body \in LoginBodies :
        /\ LoginFind(body) /\ body.email # <<>> /\ body.password # ""
        /\ C1_Locked(body)
        => /\ last' # last /\ last'.op = "login" /\ last'.status = 423
           /\ users' = users /\ reqs' = reqs]_vars

\* C1 as amended: such a request is answered 423, or 429 when the route's rate
\* limiter has already admitted 10 requests of the client in the current 15
\* minutes; either way the account is unchanged and the handler is done.
C1_LockedRejected ==
    [][\A body \in LoginBodies :
        /\ LoginFind(body) /\ body.email # <<>> /\ body.password # ""
        /\ C1_Locked(body)
        => /\ last' # last /\ last'.op = "login"
           /\ last'.status = IF LoginLimited THEN 429 ELSE 423
           /\ users' = users /\ reqs' = reqs]_vars

\* C1 witness: a login was answered 423 fifteen minutes or more after the
\* fifth failed attempt.
C1_Witness ==
    /\ last.op = "login" /\ last.status = 423
    /\ \E id \in DOMAIN users :
        /\ users[id].loginAttempts >= 5
        /\ users[id].lastLoginAttempt # NoTime
        /\ now > users[id].lastLoginAttempt

\* Login requests that carry an email and a password
C21_Logins == {body \in LoginBodies : body.email # Absent /\ body.password # NoPassword}

\* The account is outside a lock window now.
C21_Unlocked(user) ==
    user.loginAttempts < 5 \/ now - user.lastLoginAttempt >= 30 * 60 * 1000

\* On arrival: a login for an unknown email is answered 401 and changes no
\* stored user; one for an account outside a lock window goes on to the
\* comparison of the password without an answer.
C21_Arrival(body) ==
    LET user == FindByEmail(users, toLowerCase(body.email))
    IN  IF user = NoDocument
        THEN /\ last' # last /\ last'.op = "login" /\ last'.status = 401
             /\ users' = users /\ reqs' = reqs
        ELSE C21_Unlocked(user) => last' = last /\ reqs' # reqs /\ users' = users

\* On the comparison: the correct password is answered 200, sets loginAttempts
\* to 0 and lastLogin and raises totalLogins by 1; a wrong one is answered
\* 401, raises loginAttempts by 1 and sets lastLoginAttempt.
C21_Compared(r) ==
    LET id == r.doc.id
    IN  /\ last' # last /\ last'.op = "login"
        /\ IF users[id].password = bcryptHash(r.body.password)
           THEN /\ last'.status = 200
                /\ users'[id].loginAttempts = 0
                /\ users'[id].lastLogin = now
                /\ users'[id].totalLogins = users[id].totalLogins + 1
                /\ users'[id].lastLoginAttempt = users[id].lastLoginAttempt
           ELSE /\ last'.status = 401
                /\ users'[id].loginAttempts = users[id].loginAttempts + 1
                /\ users'[id].lastLoginAttempt = now
                /\ users'[id].lastLogin = users[id].lastLogin
                /\ users'[id].totalLogins = users[id].totalLogins

\* C21 as stated: outside a lock window a login with the correct password is
\* answered 200, sets loginAttempts to 0, sets lastLogin and raises
\* activity.totalLogins by exactly 1; one with a wrong password is answered
\* 401, raises loginAttempts by exactly 1 and sets lastLoginAttempt; a login
\* for an unknown email is answered 401 and changes no stored user.
C21_LoginCounters ==
    [][/\ \A body \in C21_Logins : LoginFind(body) => C21_Arrival(body)
       /\ \A r \in BagToSet(reqs) : LoginFinish(r) => C21_Compared(r)]_vars

\* C21 as amended: the same, unless the route's rate limiter has already
\* admitted 10 requests of the client in the current 15 minutes; then the
\* login is answered 429 and changes no stored user.
C21_LoginCountersOr429 ==
    [][/\ \A body \in C21_Logins :
            LoginFind(body) =>
                IF LoginLimited
                THEN /\ last' # last /\ last'.op = "login" /\ last'.status = 429
                     /\ users' = users /\ reqs' = reqs
                ELSE C21_Arrival(body)
       /\ \A r \in BagToSet(reqs) : LoginFinish(r) => C21_Compared(r)]_vars

\* C21 witness: a login was answered 200 on an account that had a failed
\* login before; its loginAttempts is 0 and its totalLogins 1.
C21_Witness ==
    /\ last.op = "login" /\ last.status = 200
    /\ \E id \in DOMAIN users :
        /\ users[id].lastLoginAttempt # NoTime
        /\ users[id].loginAttempts = 0
        /\ users[id].totalLogins = 1
        /\ users[id].lastLogin = now

\* C22: for any interleaving of concurrent login requests for one account,
\* loginAttempts equals the number of wrong-password attempts made since the
\* last successful login, so that no more than 5 wrong passwords are checked
\* against the account before the lock takes effect.
C22_AttemptsCounted ==
    /\ \A id \in DOMAIN users : users[id].loginAttempts = wrongChecks
    /\ wrongChecks <= 5

\* The request carries the email (in any letter case) and the password of an
\* account that has no failed login on it.
C8_Registered(body) ==
    /\ body.email # <<>> /\ body.password # ""
    /\ \E id \in DOMAIN users :
        /\ SameEmail(users[id].email, body.email)
        /\ users[id].password = bcryptHash(body.password)
        /\ users[id].loginAttempts = 0

\* The response is 200 with a token that verifies now and names the account
\* of that email.
C8_Answered200(body) ==
    /\ last'.op = "login" /\ last'.status = 200
    /\ last'.token.kind = "jwt" /\ last'.token.key = JwtSecret
    /\ now \div 1000 < last'.token.exp
    /\ \E id \in DOMAIN users :
        SameEmail(users[id].email, body.email) /\ last'.token.userId = users[id].id

\* C8 as stated: after a successful signup, a login with the same email in any
\* letter case and the same password, with no failed login in between, is
\* answered 200 with a token whose userId is the created user's id.
C8_RoundTripIs200 ==
    [][/\ \A body \in RoundTripLogins :
            LoginFind(body) /\ C8_Registered(body) => last' = last /\ reqs' # reqs
       /\ \A r \in BagToSet(reqs) :
            LoginFinish(r) /\ C8_Registered(r.body) => C8_Answered200(r.body)]_vars

\* C8 as amended: such a login is answered 200 with that token, or 429 when
\* the route's rate limiter has already admitted 10 requests of the client in
\* the current 15 minutes.
C8_RoundTrip ==
    [][/\ \A body \in RoundTripLogins :
            LoginFind(body) /\ C8_Registered(body) =>
                IF LoginLimited
                THEN last' # last /\ last'.status = 429 /\ reqs' = reqs
                ELSE last' = last /\ reqs' # reqs
       /\ \A r \in BagToSet(reqs) :
            LoginFinish(r) /\ C8_Registered(r.body) => C8_Answered200(r.body)]_vars

\* C8 witness: an account created by a signup that typed its email in upper
\* case has logged in with the lower-case email and holds a token for its id.
C8_Witness ==
    /\ last.op = "login" /\ last.status = 200 /\ last.email = EmailA
    /\ \E id \in DOMAIN users :
        /\ users[id].email = EmailA /\ last.token.userId = id
        /\ users[id].firstName = Lee

(***************************************************************************)
(* Claims about the auth middleware                                        *)
(***************************************************************************)
\* The token verifies now and names a stored user.
C2_Acceptable(token) ==
    /\ token.kind = "jwt" /\ token.key = JwtSecret
    /\ now \div 1000 < token.exp
    /\ \E id \in DOMAIN users : id = token.userId

\* auth passed the request on: the step of AuthSave did not answer for auth.
C2_CallsNext(r) == AuthSave(r) /\ ~(last' # last /\ last'.op = "auth")

\* C2: auth calls next() only for a request whose token verified (valid
\* signature, not expired) and whose userId named a user stored when auth
\* looked it up; a request with no token, a malformed or expired token, or a
\* token of a user that does not exist is answered 401 and not passed on.
C2_AuthGate ==
    [][/\ \A req \in AccountRequests :
            AuthFind(req) /\ ~C2_Acceptable(req.token) =>
                /\ last' # last /\ last'.op = "auth" /\ last'.status = 401
                /\ reqs' = reqs /\ users' = users
       /\ \A r \in BagToSet(reqs) :
            C2_CallsNext(r) =>
                /\ r.token.kind = "jwt" /\ r.token.key = JwtSecret
                /\ r.doc # NoDocument /\ r.doc.id = r.token.userId]_vars

\* C2 witness: the token of an account that has since been deleted, still
\* within its lifetime, was answered 401 'User not found'.
C2_Witness ==
    /\ last.op = "auth" /\ last.status = 401 /\ last.error = "User not found"
    /\ 1 \notin DOMAIN users

(***************************************************************************)
(* Claims about forgot-password and reset-password                         *)
(***************************************************************************)
\* The route's limiter has already let 3 requests of this hour through.
ForgotLimited ==
    limiter["forgot-password"].resetTime > now /\ limiter["forgot-password"].hits >= 3

\* C12: for any non-empty email the status and the body of the answer of
\* POST /forgot-password are the same whether or not an account with that
\* email exists: they are fixed by the state of the route's limiter alone
\* (429 when it rejects, else 200 with the one message).
C12_SameAnswer ==
    [][/\ \A body \in ForgotBodies :
            ForgotFind(body) /\ body.email # <<>> /\ last' # last =>
                /\ last'.op = "forgot-password"
                /\ last'.status = IF ForgotLimited THEN 429 ELSE 200
                /\ last'.error = IF ForgotLimited THEN "Too many requests"
                                 ELSE ResetLinkSent
       /\ \A r \in BagToSet(reqs) :
            ForgotSave(r) =>
                /\ last'.op = "forgot-password"
                /\ last'.status = 200 /\ last'.error = ResetLinkSent]_vars

\* C12 witness: a request for the email of an existing account was answered
\* 200 and the account holds a reset token, after a request for an unknown
\* email was counted by the limiter.
C12_Witness ==
    /\ last.op = "forgot-password" /\ last.email = EmailAUpper /\ last.status = 200
    /\ last.error = ResetLinkSent
    /\ limiter["forgot-password"].hits >= 2
    /\ \E id \in DOMAIN users : users[id].passwordResetToken # NoToken

\* The request carries the reset token stored for a user, less than an hour
\* after it was issued, and a new password of 8 characters or more.
C13_GoodReset(body) ==
    /\ body.newPassword # "" /\ Len(body.newPassword) >= 8
    /\ \E id \in DOMAIN users :
        /\ users[id].passwordResetToken = body.token
        /\ now < users[id].passwordResetExpires

\* C13: a reset-password request with the token most recently issued by
\* forgot-password for an existing user, within one hour of issue, and a new
\* password of at least 8 characters is answered 200; afterwards the stored
\* password is the new one (login with it succeeds), the stored reset token
\* and its expiry are cleared, and loginAttempts is 0.
C13_ResetWithToken ==
    [][/\ \A body \in ResetBodies :
            ResetFind(body) /\ C13_GoodReset(body) => last' = last /\ reqs' # reqs
       /\ \A r \in BagToSet(reqs) :
            ResetFinish(r) /\ C13_GoodReset(r.body) =>
                /\ last'.op = "reset-password" /\ last'.status = 200
                /\ \A id \in DOMAIN users :
                    users[id].passwordResetToken = r.body.token =>
                        /\ users'[id].password = bcryptHash(r.body.newPassword)
                        /\ users'[id].passwordResetToken = NoToken
                        /\ users'[id].passwordResetExpires = NoTime
                        /\ users'[id].loginAttempts = 0]_vars

(***************************************************************************)
(* Claims about DELETE /api/auth/account                                   *)
(***************************************************************************)
\* The request's body confirms the deletion with the account's password.
C15_Confirmed(r) ==
    /\ r.body.confirmation = "DELETE_MY_ACCOUNT"
    /\ r.token.userId \in DOMAIN users
    /\ users[r.token.userId].password = bcryptHash(r.body.password)

\* An account is removed only by the confirmed request of its owner.
C15_RemovedOnlyWhenConfirmed ==
    DOMAIN users' # DOMAIN users =>
        \E r \in BagToSet(reqs) :
            /\ DeleteDone(r) /\ C15_Confirmed(r)
            /\ DOMAIN users' = DOMAIN users \ {r.token.userId}
            /\ \A id \in DOMAIN users' : users'[id] = users[id]

\* The handler answered 400 or 401 in this step, as the request's body asks.
C15_Refused(r) ==
    \/ /\ AuthSave(r) /\ last' # last /\ last'.op = "delete"
       /\ (r.body.password = "" \/ r.body.confirmation # "DELETE_MY_ACCOUNT")
       /\ last'.status = 400
    \/ /\ DeleteFind(r) /\ last' # last
       /\ r.token.userId \in DOMAIN users
       /\ users[r.token.userId].password # bcryptHash(r.body.password)
       /\ last'.status = 401

\* A request without password or with a wrong confirmation is answered 400,
\* one with a wrong password 401.
C15_Answers ==
    \A r \in BagToSet(reqs) :
        /\ AuthSave(r) /\ last' # last /\ last'.op = "delete" =>
            /\ r.body.password = "" \/ r.body.confirmation # "DELETE_MY_ACCOUNT"
            /\ last'.status = 400
        /\ DeleteFind(r) /\ r.token.userId \in DOMAIN users
             /\ users[r.token.userId].password # bcryptHash(r.body.password) =>
            last'.status = 401

\* The fields auth writes on every authenticated request
ActivityStamp == {"lastActive", "lastUpdated"}

ProfileFields ==
    {"firstName", "lastName", "phone", "location", "preferences", "lastUpdated",
     "isComplete"}

\* A step of the PUT /profile request r after its token was verified
C16_ProfileStep(r) ==
    r.route = "profile" /\ (AuthSave(r) \/ ProfileFind(r) \/ ProfileSave(r))

\* The step changes at most the given fields of the requester's document.
C16_ChangesAtMost(r, fields) ==
    /\ DOMAIN users' = DOMAIN users
    /\ \A id \in DOMAIN users : \A f \in DOMAIN users[id] :
        users'[id][f] # users[id][f] => id = r.token.userId /\ f \in fields

C17_Acceptable(message) ==
    /\ message.kind = "string"
    /\ trim(message.text) # <<>>
    /\ Len(message.text) < 2000

\* C17: POST /api/chat answers 200 with an answer only if the message is
\* non-empty after trimming and shorter than 2000 characters; every other
\* message (a string or none) is answered 400 without an answer.
C17_AcceptsOnlyShortMessages ==
    chatRes.status # 0 /\ chatRes.message.kind # "number" =>
        /\ chatRes.status = 200 => C17_Acceptable(chatRes.message)
        /\ ~C17_Acceptable(chatRes.message) =>
                chatRes.status = 400 /\ chatRes.answer = NULL

(***************************************************************************)
(* Claims about shutdown                                                   *)
(***************************************************************************)
\* C18: after SIGTERM or SIGINT the process exits only after the callback of
\* server.close has run, whatever the order in which the handlers of
\* server.js and of the database module complete.
C18_ExitAfterServerClosed ==
    /\ sdExit # NoExit
    /\ \E i \in 1..Len(sdSignals) : sdSignals[i] \in ServerSignals
    => sdCloseCb

(***************************************************************************)
(* Claims about the photos of the report form                              *)
(***************************************************************************)
\* C19: whatever the order of file selections, drops, FileReader
\* completions, removals and draft restores, uploadedPhotos never holds more
\* than 5 photos.
C19_AtMostFivePhotos == Len(uploadedPhotos) <= 5

RlIdle == RlInit /\ rlMax = 1 /\ rlWindow = 1
QIdle == QInit /\ qDoc = FreshDoc("free")
HistInit == wrongChecks = 0
MiscIdle == EhInit /\ ChatInit /\ SdInit /\ PhInit /\ OffInit /\ HistInit

SpecRateInit == RlInit /\ AzInit /\ QIdle /\ AuthInit /\ MiscIdle
SpecRateNext ==
    \/ \E k \in RlKeys : RlRequest(k) /\ UNCHANGED <<azVars, qVars, authVars, miscVars>>
    \/ RlTick /\ UNCHANGED <<azVars, qVars, authVars, miscVars>>
SpecRate == SpecRateInit /\ [][SpecRateNext]_vars

SpecAuthorizeInit == RlIdle /\ AzInit /\ QIdle /\ AuthInit /\ MiscIdle
SpecAuthorizeNext == AzRequest /\ UNCHANGED <<rlVars, qVars, authVars, miscVars>>
SpecAuthorize == SpecAuthorizeInit /\ [][SpecAuthorizeNext]_vars

SpecQuotaInit == RlIdle /\ AzInit /\ QInit /\ AuthInit /\ MiscIdle
SpecQuotaNext ==
    \/ \E anonymous \in BOOLEAN : QRequest(anonymous) /\ UNCHANGED <<rlVars, azVars, authVars, miscVars>>
    \/ QNextDay /\ UNCHANGED <<rlVars, azVars, authVars, miscVars>>
SpecQuota == SpecQuotaInit /\ [][SpecQuotaNext]_vars

\* checkApiQuota across the change of the month
SpecQuotaMonthsInit == RlIdle /\ AzInit /\ QInit /\ AuthInit /\ MiscIdle
SpecQuotaMonthsNext ==
    \/ \E anonymous \in BOOLEAN : QRequest(anonymous) /\ UNCHANGED <<rlVars, azVars, authVars, miscVars>>
    \/ QNextDay /\ UNCHANGED <<rlVars, azVars, authVars, miscVars>>
    \/ QNextMonth /\ UNCHANGED <<rlVars, azVars, authVars, miscVars>>
SpecQuotaMonths == SpecQuotaMonthsInit /\ [][SpecQuotaMonthsNext]_vars

\* The global error handler
EhFrame ==
    UNCHANGED <<rlVars, azVars, qVars, authVars, chatVars, sdVars, phVars, offVars,
                histVars>>
SpecErrorsInit == RlIdle /\ AzInit /\ QIdle /\ AuthInit /\ MiscIdle
SpecErrorsNext == \E error \in Errors : EhHandle(error) /\ EhFrame
SpecErrors == SpecErrorsInit /\ [][SpecErrorsNext]_vars

\* POST /api/chat
ChatFrame ==
    UNCHANGED <<rlVars, azVars, qVars, authVars, ehVars, sdVars, phVars, offVars,
                histVars>>
SpecChatInit == RlIdle /\ AzInit /\ QIdle /\ AuthInit /\ MiscIdle
SpecChatNext ==
    \/ \E message \in ChatMessages : ChatPost(message) /\ ChatFrame
    \/ \E message \in chatPending : ChatAnswer(message) /\ ChatFrame
SpecChat == SpecChatInit /\ [][SpecChatNext]_vars

\* The process from its start to its exit
SdFrame ==
    UNCHANGED <<rlVars, azVars, qVars, authVars, ehVars, chatVars, phVars, offVars,
                histVars>>
SpecShutdownInit == RlIdle /\ AzInit /\ QIdle /\ AuthInit /\ MiscIdle
SpecShutdownNext ==
    \/ SdDbConnected /\ SdFrame
    \/ SdConnOpen /\ SdFrame
    \/ SdConnEnd /\ SdFrame
    \/ \E signal \in DbSignals : SdSignal(signal) /\ SdFrame
    \/ SdDbClosed /\ SdFrame
SpecShutdown == SpecShutdownInit /\ [][SpecShutdownNext]_vars

\* The photos of the report form
PhFrame ==
    UNCHANGED <<rlVars, azVars, qVars, authVars, ehVars, chatVars, sdVars, offVars,
                histVars>>
SpecPhotosInit == RlIdle /\ AzInit /\ QIdle /\ AuthInit /\ MiscIdle
SpecPhotosNext ==
    \/ \E files \in SUBSET Files : PhSelect(files) /\ PhFrame
    \/ \E files \in SUBSET Files : PhDrop(files) /\ PhFrame
    \/ \E file \in BagToSet(phReaders) : PhLoaded(file) /\ PhFrame
    \/ \E i \in 1..Len(uploadedPhotos) : PhRemove(i) /\ PhFrame
    \/ PhReload /\ PhFrame
SpecPhotos == SpecPhotosInit /\ [][SpecPhotosNext]_vars

\* Offline reports
OffFrame ==
    UNCHANGED <<rlVars, azVars, qVars, authVars, ehVars, chatVars, sdVars, phVars,
                histVars>>
SpecOfflineInit == RlIdle /\ AzInit /\ QIdle /\ AuthInit /\ MiscIdle
SpecOfflineNext ==
    \/ OffOnline /\ OffFrame
    \/ OffOffline /\ OffFrame
    \/ \E ok \in BOOLEAN : OffSubmit(ok) /\ OffFrame
    \/ \E sync \in BagToSet(syncs) : \E id \in DOMAIN sync.results, ok \in BOOLEAN :
            OffFetchDone(sync, id, ok) /\ OffFrame
SpecOffline == SpecOfflineInit /\ [][SpecOfflineNext]_vars

\* Signup requests, from an empty collection.
SpecSignupInit == RlIdle /\ AzInit /\ QIdle /\ AuthInit /\ MiscIdle
SpecSignupNext ==
    \/ \E body \in SignupBodies : SignupFind(body) /\ UNCHANGED <<rlVars, azVars, qVars, miscVars>>
    \/ \E r \in BagToSet(reqs) : SignupSave(r) /\ UNCHANGED <<rlVars, azVars, qVars, miscVars>>
    \/ Tick(MaxSignupTicks) /\ UNCHANGED <<rlVars, azVars, qVars, miscVars>>
SpecSignup == SpecSignupInit /\ [][SpecSignupNext]_vars

\* Concurrent logins for one account
SpecLoginRaceInit == RlIdle /\ AzInit /\ QIdle /\ SignedUpInit /\ MiscIdle
SpecLoginRaceNext ==
    \/ \E body \in RaceLogins :
            LoginRaceFind(body)
            /\ UNCHANGED <<rlVars, azVars, qVars, ehVars, chatVars, sdVars, phVars, offVars>>
    \/ \E r \in BagToSet(reqs) :
            LoginRaceFinish(r)
            /\ UNCHANGED <<rlVars, azVars, qVars, ehVars, chatVars, sdVars, phVars, offVars>>
SpecLoginRace == SpecLoginRaceInit /\ [][SpecLoginRaceNext]_vars

\* POST /api/auth/login against one account
SpecLoginInit == RlIdle /\ AzInit /\ QIdle /\ SignedUpInit /\ MiscIdle
SpecLoginNext ==
    \/ \E body \in LoginBodies :
            reqs = EmptyBag /\ LoginFind(body) /\ UNCHANGED <<rlVars, azVars, qVars, miscVars>>
    \/ \E r \in BagToSet(reqs) : LoginFinish(r) /\ UNCHANGED <<rlVars, azVars, qVars, miscVars>>
    \/ Tick(MaxLoginTicks) /\ UNCHANGED <<rlVars, azVars, qVars, miscVars>>
SpecLogin == SpecLoginInit /\ [][SpecLoginNext]_vars

\* One client that signs up once and then logs in, waiting for each answer
SpecRoundTripInit == RlIdle /\ AzInit /\ QIdle /\ AuthInit /\ MiscIdle
SpecRoundTripNext ==
    \/ \E body \in RoundTripSignups :
            /\ reqs = EmptyBag /\ users = <<>>
            /\ SignupFind(body) /\ UNCHANGED <<rlVars, azVars, qVars, miscVars>>
    \/ \E r \in BagToSet(reqs) :
            r.pc = "signup" /\ SignupSave(r) /\ UNCHANGED <<rlVars, azVars, qVars, miscVars>>
    \/ \E body \in RoundTripLogins :
            reqs = EmptyBag /\ LoginFind(body) /\ UNCHANGED <<rlVars, azVars, qVars, miscVars>>
    \/ \E r \in BagToSet(reqs) :
            r.pc = "login" /\ LoginFinish(r) /\ UNCHANGED <<rlVars, azVars, qVars, miscVars>>
    \/ Tick(MaxSignupTicks) /\ UNCHANGED <<rlVars, azVars, qVars, miscVars>>
SpecRoundTrip == SpecRoundTripInit /\ [][SpecRoundTripNext]_vars

\* forgot-password and reset-password for one account
SpecResetInit == RlIdle /\ AzInit /\ QIdle /\ SignedUpInit /\ MiscIdle
SpecResetNext ==
    \/ \E body \in ForgotBodies : ForgotFind(body) /\ UNCHANGED <<rlVars, azVars, qVars, miscVars>>
    \/ \E r \in BagToSet(reqs) : ForgotSave(r) /\ UNCHANGED <<rlVars, azVars, qVars, miscVars>>
    \/ \E body \in ResetBodies : ResetFind(body) /\ UNCHANGED <<rlVars, azVars, qVars, miscVars>>
    \/ \E r \in BagToSet(reqs) : ResetFinish(r) /\ UNCHANGED <<rlVars, azVars, qVars, miscVars>>
    \/ TickHour /\ UNCHANGED <<rlVars, azVars, qVars, miscVars>>
SpecReset == SpecResetInit /\ [][SpecResetNext]_vars

\* DELETE /api/auth/account behind auth, for one account
SpecAccountInit == RlIdle /\ AzInit /\ QIdle /\ AccountInit /\ MiscIdle
SpecAccountNext ==
    \/ \E req \in AccountRequests : AuthFind(req) /\ UNCHANGED <<rlVars, azVars, qVars, miscVars>>
    \/ \E r \in BagToSet(reqs) : AuthSave(r) /\ UNCHANGED <<rlVars, azVars, qVars, miscVars>>
    \/ \E r \in BagToSet(reqs) : DeleteFind(r) /\ UNCHANGED <<rlVars, azVars, qVars, miscVars>>
    \/ \E r \in BagToSet(reqs) : DeleteDone(r) /\ UNCHANGED <<rlVars, azVars, qVars, miscVars>>
    \/ TickWeek /\ UNCHANGED <<rlVars, azVars, qVars, miscVars>>
SpecAccount == SpecAccountInit /\ [][SpecAccountNext]_vars

\* DELETE /api/auth/account by the owners of two accounts, each of whom waits
\* for the answer to a request before sending the next
SpecDeleteInit == RlIdle /\ AzInit /\ QIdle /\ TwoAccountsInit /\ MiscIdle
SpecDeleteNext ==
    \/ \E req \in OwnerRequests :
            /\ \A r \in BagToSet(reqs) : r.token # req.token
            /\ AuthFind(req) /\ UNCHANGED <<rlVars, azVars, qVars, miscVars>>
    \/ \E r \in BagToSet(reqs) : AuthSave(r) /\ UNCHANGED <<rlVars, azVars, qVars, miscVars>>
    \/ \E r \in BagToSet(reqs) : DeleteFind(r) /\ UNCHANGED <<rlVars, azVars, qVars, miscVars>>
    \/ \E r \in BagToSet(reqs) : DeleteDone(r) /\ UNCHANGED <<rlVars, azVars, qVars, miscVars>>
    \/ Tick(MaxSignupTicks) /\ UNCHANGED <<rlVars, azVars, qVars, miscVars>>
SpecDelete == SpecDeleteInit /\ [][SpecDeleteNext]_vars

\* PUT /profile requests of the owner of one of two accounts, one in flight.
SpecProfileInit == RlIdle /\ AzInit /\ QIdle /\ TwoAccountsInit /\ MiscIdle
SpecProfileNext ==
    \/ \E req \in ProfileRequests :
            /\ \A r \in BagToSet(reqs) : r.token # req.token
            /\ AuthFind(req) /\ UNCHANGED <<rlVars, azVars, qVars, miscVars>>
    \/ \E r \in BagToSet(reqs) : AuthSave(r) /\ UNCHANGED <<rlVars, azVars, qVars, miscVars>>
    \/ \E r \in BagToSet(reqs) : ProfileFind(r) /\ UNCHANGED <<rlVars, azVars, qVars, miscVars>>
    \/ \E r \in BagToSet(reqs) : ProfileSave(r) /\ UNCHANGED <<rlVars, azVars, qVars, miscVars>>
    \/ Tick(MaxSignupTicks) /\ UNCHANGED <<rlVars, azVars, qVars, miscVars>>
SpecProfile == SpecProfileInit /\ [][SpecProfileNext]_vars

====
